---- MODULE Spec2Model ----
(***************************************************************************)
(* A model of the matebabe bytecode virtual machine (src/src/run.rs):      *)
(* the method area with the class lifecycle driver (load, link, init),     *)
(* the heap, the threads with their frame stacks, the interpreter loop     *)
(* and the exception handling of Thread::handle_exception.                 *)
(*                                                                         *)
(* A state of the model is the state of the VM at the start of an          *)
(* iteration of `loop` in Thread::run of the thread that is executing, or  *)
(* at a call of the VM driver (VM::run, VM::initialize_java_lang_classes). *)
(* A nested run of a <clinit> (GlobalMemory::init_class) is a thread of    *)
(* its own on top of `threads`; its caller waits at position "ensure".     *)
(***************************************************************************)
EXTENDS Integers, Sequences, FiniteSets, TLC

VARIABLES
    classes,        \* GlobalMemory.method_area.classes (HashMap name -> Klass)
    heap,           \* GlobalMemory.heap.data
    threads,        \* <<main_thread>> \o the init threads of the nested runs
    vm,             \* position of the VM driver: [pc, at]
    main_name,      \* the class name given on the command line
    alu,            \* the operation and the constants in the file Alu.class
    class_files,    \* the file load_class finds on the class path for a name, parsed
    error,          \* message of the Err / panic that aborted the process
    clinit_entered, \* history: frames built for <clinit>, per class name
    buffer,         \* the bytes of a file handed to deserialize_class_file
    deserialized,   \* what deserialize_class_file made of buffer, once it ran
    descriptor_text,    \* the text handed to the descriptor parser
    parsed_descriptor   \* what the descriptor parser made of it, once it ran

vars == <<classes, heap, threads, vm, main_name, alu, class_files, error,
          clinit_entered, buffer, deserialized,
          descriptor_text, parsed_descriptor>>

(***************************************************************************)
(* Option<T>: None is the empty sequence, Some(x) the sequence <<x>>.      *)
(***************************************************************************)
None == <<>>
Some(x) == <<x>>
IsSome(o) == o # <<>>
Unwrap(o) == o[1]

Last(s) == s[Len(s)]
Front(s) == SubSeq(s, 1, Len(s) - 1)

\* A u32 cell of an operand stack, of the locals or of an object is written
\* as the i32 that has the same 32 bits (what read_i32 makes of the cell):
\* 0xFFFFFFFF is -1, 0x80000000 is MinI32.
MaxI32 == 2147483647
MinI32 == -MaxI32 - 1

(***************************************************************************)
(* Opcodes of the `match instruction` in Thread::run.                      *)
(***************************************************************************)
aconst_null == 1
iconst_m1 == 2
iconst_0 == 3
iconst_1 == 4
iconst_2 == 5
iconst_5 == 8
bipush == 16
ldc == 18
ldc_w == 19
lload == 22
lload_0 == 30
lload_3 == 33
aaload == 50
baload == 51
caload == 52
lstore == 55
lstore_0 == 63
lstore_3 == 66
iastore == 79
aastore == 83
bastore == 84
pop == 87
dup == 89
ladd == 97
lmul == 105
idiv == 108
irem == 112
ishl == 120
lshl == 121
ishr == 122
iushr == 124
lushr == 125
land == 127
lxor == 131
i2l == 133
l2i == 136
i2b == 145
lcmp == 148
ireturn == 172
lreturn == 173
dreturn == 175
return == 177
getstatic == 178
putstatic == 179
getfield == 180
putfield == 181
invokevirtual == 182
invokestatic == 184
new == 187
newarray == 188
athrow == 191

\* Frame::new: local_variables: vec![0; 20]
LocalsSize == 20

(***************************************************************************)
(* Parsed classes (parse::Class) as the class path provides them.          *)
(***************************************************************************)
ClassInfo(n) == [tag |-> "Class", class |-> n, name |-> "", descriptor |-> <<>>]
FieldRef(c, n, t) == [tag |-> "FieldRef", class |-> c, name |-> n, descriptor |-> <<t>>]
MethodDescriptor(params, ret) == [parameter_descriptors |-> params, return_descriptor |-> ret]
MethodRef(c, n, d) == [tag |-> "MethodRef", class |-> c, name |-> n, descriptor |-> <<d>>]

\* Constant::Integer, Constant::String (the text as its code points)
IntegerConst(v) == [tag |-> "Integer", value |-> v]
StringConst(text) == [tag |-> "String", text |-> text]

\* String::from_utf8 of the bytes of a Utf8 entry: [ok, text], the text as its
\* code points; overlong forms, surrogates and values above 0x10FFFF are
\* rejected, as are truncated sequences
RECURSIVE FromUtf8(_)
FromUtf8(bytes) ==
    IF bytes = <<>> THEN [ok |-> TRUE, text |-> <<>>]
    ELSE LET b == bytes[1]
             width == IF b < 128 THEN 1
                      ELSE IF b \in 194..223 THEN 2
                      ELSE IF b \in 224..239 THEN 3
                      ELSE IF b \in 240..244 THEN 4
                      ELSE 0
             second == CASE b = 224 -> 160..191
                         [] b = 237 -> 128..159
                         [] b = 240 -> 144..191
                         [] b = 244 -> 128..143
                         [] OTHER -> 128..191
             valid == /\ width >= 1
                      /\ Len(bytes) >= width
                      /\ width >= 2 => bytes[2] \in second
                      /\ \A k \in 3..width : bytes[k] \in 128..191
             lead == CASE width = 1 -> b
                       [] width = 2 -> b - 192
                       [] width = 3 -> b - 224
                       [] OTHER -> b - 240
             Point[k \in 1..4] ==
                 IF k = 1 THEN lead ELSE Point[k - 1] * 64 + (bytes[k] - 128)
         IN  IF ~valid THEN [ok |-> FALSE, text |-> <<>>]
             ELSE LET rest == FromUtf8(SubSeq(bytes, width + 1, Len(bytes)))
                  IN  [ok |-> rest.ok, text |-> <<Point[width]>> \o rest.text]

\* a String constant as deserialized, with the bytes of the Utf8 entry it names
ConstantStringInfo(bytes) == [tag |-> "ConstantStringInfo", bytes |-> bytes]

\* parse_or_get_constant for the constants of the Alu pool: the text of a String
\* constant is parse_utf8_info of its Utf8 entry
ParseConstant(info) ==
    IF info.tag = "ConstantStringInfo" THEN StringConst(FromUtf8(info.bytes).text) ELSE info

\* the class names whose file parse panics on: parse_utf8_info unwraps the
\* result of String::from_utf8
Unparsable ==
    IF alu.a.tag = "ConstantStringInfo" /\ ~FromUtf8(alu.a.bytes).ok THEN {"Alu"} ELSE {}

VoidDescriptor == MethodDescriptor(<<>>, "V")
MainDescriptor == MethodDescriptor(<<"[">>, "V")

Field(n, t, static) == [name |-> n, field_type |-> t, access |-> [static |-> static]]
ExceptionTableItem(s, e, h, c) == [start_pc |-> s, end_pc |-> e, handler_pc |-> h, catch_type |-> c]
CodeLocals(bytes, table, max_locals) ==
    [bytes |-> bytes, exception_table |-> table, max_locals |-> max_locals]
\* the fixtures that name no max_locals use at most the locals 0..5
Code(bytes, table) == CodeLocals(bytes, table, 6)
Method(n, d, code) ==
    [name |-> n, descriptor |-> d, access |-> [native |-> ~IsSome(code)], code |-> code]
Class(this, super, ifs, pool, fields, methods) ==
    [this_class |-> this, super_class |-> super, interfaces |-> ifs,
     constant_pool |-> pool, fields |-> fields, methods |-> methods]

Plain(this, super, fields) == Class(this, Some(super), <<>>, <<ClassInfo(this)>>, fields, <<>>)

JavaLangString ==
    Class("java/lang/String", Some("java/lang/Object"), <<>>,
          <<ClassInfo("java/lang/String"),
            FieldRef("java/lang/String", "COMPACT_STRINGS", "Z")>>,
          <<Field("value", "[", FALSE), Field("coder", "B", FALSE),
            Field("hash", "I", FALSE),
            Field("serialVersionUID", "J", TRUE),
            Field("COMPACT_STRINGS", "Z", TRUE)>>,
          <<Method("<clinit>", VoidDescriptor,
                   Some(Code(<<iconst_1, putstatic, 0, 2, return>>, <<>>)))>>)

JavaLangSystem ==
    Class("java/lang/System", Some("java/lang/Object"), <<>>,
          <<ClassInfo("java/lang/System")>>,
          <<Field("out", "L", TRUE)>>,
          <<Method("initPhase1", VoidDescriptor, Some(Code(<<return>>, <<>>))),
            Method("registerNatives", VoidDescriptor, None),
            Method("identityHashCode", MethodDescriptor(<<"L">>, "I"), None),
            Method("nanoTime", MethodDescriptor(<<>>, "J"), None),
            Method("arraycopy", MethodDescriptor(<<"L", "I", "L", "I", "I">>, "V"),
                   None)>>)

\* static int x; static long y; static { x = 7; int t = Other.z; }
Counter ==
    Class("Counter", Some("java/lang/Object"), <<>>,
          <<ClassInfo("Counter"), FieldRef("Counter", "x", "I"),
            FieldRef("Other", "z", "I")>>,
          <<Field("x", "I", TRUE), Field("y", "J", TRUE)>>,
          <<Method("<clinit>", VoidDescriptor,
                   Some(Code(<<bipush, 7, putstatic, 0, 2,
                               getstatic, 0, 3, pop, return>>, <<>>)))>>)

\* static int z; static { z = Counter.x; }
Other ==
    Class("Other", Some("java/lang/Object"), <<>>,
          <<ClassInfo("Other"), FieldRef("Counter", "x", "I"),
            FieldRef("Other", "z", "I")>>,
          <<Field("z", "I", TRUE)>>,
          <<Method("<clinit>", VoidDescriptor,
                   Some(Code(<<getstatic, 0, 2, putstatic, 0, 3, return>>, <<>>)))>>)

\* class Sub extends Base implements Konst
Sub ==
    Class("Sub", Some("Base"), <<"Konst">>, <<ClassInfo("Sub")>>,
          <<Field("c", "I", FALSE), Field("s", "I", TRUE), Field("d", "D", FALSE)>>,
          <<>>)

\* main: Counter.x twice, then new Sub, new Base
Statics ==
    Class("Statics", Some("java/lang/Object"), <<>>,
          <<ClassInfo("Statics"), FieldRef("Counter", "x", "I"), ClassInfo("Sub"),
            ClassInfo("Base")>>,
          <<>>,
          <<Method("main", MainDescriptor,
                   Some(Code(<<getstatic, 0, 2, pop, getstatic, 0, 2, pop,
                               new, 0, 3, pop, new, 0, 4, pop, return>>, <<>>)))>>)

\* static int v; static { v = 2; }
Base2 ==
    Class("Base2", Some("java/lang/Object"), <<>>,
          <<ClassInfo("Base2"), FieldRef("Base2", "v", "I")>>,
          <<Field("v", "I", TRUE)>>,
          <<Method("<clinit>", VoidDescriptor,
                   Some(Code(<<iconst_2, putstatic, 0, 2, return>>, <<>>)))>>)

\* a class whose only method named <clinit> has the descriptor (I)V: per
\* JVMS 2.9.2 such a method is of no consequence, the class has no initializer
Sub2 ==
    Class("Sub2", Some("Base2"), <<>>, <<ClassInfo("Sub2")>>,
          <<Field("w", "I", TRUE)>>,
          <<Method("<clinit>", MethodDescriptor(<<"I">>, "V"),
                   Some(Code(<<return>>, <<>>)))>>)

\* main: Base2.v, then Sub2.w
Exotic ==
    Class("Exotic", Some("java/lang/Object"), <<>>,
          <<ClassInfo("Exotic"), FieldRef("Base2", "v", "I"), FieldRef("Sub2", "w", "I")>>,
          <<>>,
          <<Method("main", MainDescriptor,
                   Some(Code(<<getstatic, 0, 2, pop, getstatic, 0, 3, pop, return>>,
                             <<>>)))>>)

\* main: 7 / 2, then try { 1 / 0 } catch (ArithmeticException e) { }
DivZero ==
    Class("DivZero", Some("java/lang/Object"), <<>>,
          <<ClassInfo("DivZero"), ClassInfo("java/lang/ArithmeticException")>>,
          <<>>,
          <<Method("main", MainDescriptor,
                   Some(Code(<<bipush, 7, iconst_2, idiv, pop,
                               iconst_1, iconst_0, idiv, pop, return,
                               pop, iconst_m1, pop, return>>,
                             <<ExceptionTableItem(5, 9, 10, 2)>>)))>>)

\* main: 7 % 5, then try { 1 % 0 } catch (ArithmeticException e) { }
RemZero ==
    Class("RemZero", Some("java/lang/Object"), <<>>,
          <<ClassInfo("RemZero"), ClassInfo("java/lang/ArithmeticException")>>,
          <<>>,
          <<Method("main", MainDescriptor,
                   Some(Code(<<bipush, 7, iconst_5, irem, pop,
                               iconst_1, iconst_0, irem, pop, return,
                               pop, iconst_m1, pop, return>>,
                             <<ExceptionTableItem(5, 9, 10, 2)>>)))>>)

\* main: try { throw Boom } catch (Boom e) { }
Catch ==
    Class("Catch", Some("java/lang/Object"), <<>>,
          <<ClassInfo("Catch"), ClassInfo("Boom")>>,
          <<>>,
          <<Method("main", MainDescriptor,
                   Some(Code(<<new, 0, 2, athrow, return, pop, return>>,
                             <<ExceptionTableItem(0, 4, 5, 2)>>)))>>)

\* raise: try { new Boom } catch (Boom e) { return } ; throw it
Thrower ==
    Class("Thrower", Some("java/lang/Object"), <<>>,
          <<ClassInfo("Thrower"), ClassInfo("Boom")>>,
          <<>>,
          <<Method("raise", VoidDescriptor,
                   Some(Code(<<new, 0, 2, athrow, return>>,
                             <<ExceptionTableItem(0, 3, 4, 2)>>)))>>)

\* main: try { Thrower.raise(); int t = 1; } catch (Boom e) { }
Propagate ==
    Class("Propagate", Some("java/lang/Object"), <<>>,
          <<ClassInfo("Propagate"), ClassInfo("Boom"),
            MethodRef("Thrower", "raise", VoidDescriptor)>>,
          <<>>,
          <<Method("main", MainDescriptor,
                   Some(Code(<<invokestatic, 0, 3, iconst_1, pop, return, pop, return>>,
                             <<ExceptionTableItem(0, 5, 6, 2)>>)))>>)

\* main: try { throw Boom } catch (java.lang.Exception e) { }
SuperCatch ==
    Class("SuperCatch", Some("java/lang/Object"), <<>>,
          <<ClassInfo("SuperCatch"), ClassInfo("Boom"), ClassInfo("java/lang/Exception")>>,
          <<>>,
          <<Method("main", MainDescriptor,
                   Some(Code(<<new, 0, 2, athrow, return, pop, return>>,
                             <<ExceptionTableItem(0, 4, 5, 3)>>)))>>)

\* main: try { throw Boom } finally { }    (catch_type 0)
CatchAll ==
    Class("CatchAll", Some("java/lang/Object"), <<>>,
          <<ClassInfo("CatchAll"), ClassInfo("Boom")>>,
          <<>>,
          <<Method("main", MainDescriptor,
                   Some(Code(<<new, 0, 2, athrow, return, pop, return>>,
                             <<ExceptionTableItem(0, 4, 5, 0)>>)))>>)

\* main: try { mid(); } catch (Boom e) { }   mid: Thrower.raise(); return 1
Deep ==
    Class("Deep", Some("java/lang/Object"), <<>>,
          <<ClassInfo("Deep"), ClassInfo("Boom"),
            MethodRef("Deep", "mid", MethodDescriptor(<<>>, "I")),
            MethodRef("Thrower", "raise", VoidDescriptor)>>,
          <<>>,
          <<Method("main", MainDescriptor,
                   Some(Code(<<invokestatic, 0, 3, pop, return, pop, return>>,
                             <<ExceptionTableItem(0, 4, 5, 2)>>))),
            Method("mid", MethodDescriptor(<<>>, "I"),
                   Some(Code(<<invokestatic, 0, 4, iconst_1, ireturn>>, <<>>)))>>)

\* main: throw Boom, no handler
Uncaught ==
    Class("Uncaught", Some("java/lang/Object"), <<>>,
          <<ClassInfo("Uncaught"), ClassInfo("Boom")>>,
          <<>>,
          <<Method("main", MainDescriptor,
                   Some(Code(<<new, 0, 2, athrow>>, <<>>)))>>)

\* main: five(); wide(); new Early.  five: return 5; wide: return 5L
Calls ==
    Class("Calls", Some("java/lang/Object"), <<>>,
          <<ClassInfo("Calls"),
            MethodRef("Calls", "five", MethodDescriptor(<<>>, "I")),
            MethodRef("Calls", "wide", MethodDescriptor(<<>>, "J")),
            ClassInfo("Early")>>,
          <<>>,
          <<Method("main", MainDescriptor,
                   Some(Code(<<invokestatic, 0, 2, pop, invokestatic, 0, 3, pop, pop,
                               new, 0, 4, pop, return>>, <<>>))),
            Method("five", MethodDescriptor(<<>>, "I"),
                   Some(Code(<<iconst_5, ireturn>>, <<>>))),
            Method("wide", MethodDescriptor(<<>>, "J"),
                   Some(Code(<<iconst_5, i2l, lreturn>>, <<>>)))>>)

\* a class file whose <clinit> ends in ireturn
Early ==
    Class("Early", Some("java/lang/Object"), <<>>, <<ClassInfo("Early")>>, <<>>,
          <<Method("<clinit>", VoidDescriptor, Some(Code(<<iconst_1, ireturn>>, <<>>)))>>)

\* class Shape { int get() { return 1; } }; class Circle extends Shape
\* overrides get to return 2, class Blob extends Shape inherits it
Shape(this, super, methods) ==
    Class(this, Some(super), <<>>, <<ClassInfo(this)>>, <<>>, methods)
Get(value) == Method("get", MethodDescriptor(<<>>, "I"), Some(Code(<<value, ireturn>>, <<>>)))

\* main: new Circle().get() and new Blob().get(), both through Shape.get
Virtual ==
    Class("Virtual", Some("java/lang/Object"), <<>>,
          <<ClassInfo("Virtual"), ClassInfo("Circle"),
            MethodRef("Shape", "get", MethodDescriptor(<<>>, "I")), ClassInfo("Blob"),
            ClassInfo("Twice")>>,
          <<>>,
          <<Method("main", MainDescriptor,
                   Some(Code(<<new, 0, 2, invokevirtual, 0, 3, pop,
                               new, 0, 4, invokevirtual, 0, 3, pop,
                               new, 0, 5, pop, return>>, <<>>)))>>)

\* main: the operation alu.op on the constants alu.a and alu.b, the result
\* popped
AluCode(op) ==
    CASE op \in {idiv, ishl, ishr, iushr} -> <<ldc, 2, ldc, 3, op, pop, return>>
      [] op \in {lshl, lushr} -> <<ldc, 2, i2l, ldc, 3, op, pop, pop, return>>
      [] op \in {ladd, lmul, land, lxor} ->
             <<ldc, 2, i2l, ldc, 3, i2l, op, pop, pop, return>>
      [] op = lcmp -> <<ldc, 2, i2l, ldc, 3, i2l, op, pop, return>>
      [] op = i2b -> <<ldc, 2, i2b, pop, return>>
      [] op = i2l -> <<ldc, 2, i2l, l2i, i2b, pop, return>>
      [] op \in {aaload, baload, caload} ->
             (IF alu.a.value = 0 THEN <<aconst_null>> ELSE <<ldc, 2, newarray, 8>>)
                 \o <<ldc, 3, op, pop, return>>
      [] op = lstore -> <<ldc, 2, ldc, 3, lstore, 4, lload, 4, pop, pop, return>>
      [] op \in lstore_0..lstore_3 ->
             <<ldc, 2, ldc, 3, op, lload_0 + (op - lstore_0), pop, pop, return>>
      [] op = bastore ->
             <<iconst_2, newarray, 8, dup, ldc, 3, ldc, 2, bastore,
               ldc, 3, baload, pop, return>>
      [] op = getfield -> <<ldc, 2, getfield, 0, 3, iconst_0, baload, pop, return>>
      [] op = ldc -> <<ldc, 2, pop, return>>
      [] op = ldc_w -> <<ldc_w, 0, 2, pop, return>>

Alu ==
    Class("Alu", Some("java/lang/Object"), <<>>,
          <<ClassInfo("Alu"), ParseConstant(alu.a), alu.b>>,
          <<>>,
          <<Method("main", MainDescriptor, Some(Code(AluCode(alu.op), <<>>)))>>)

\* static long y; main: y = (the cells 1, 2); read y
Wide ==
    Class("Wide", Some("java/lang/Object"), <<>>,
          <<ClassInfo("Wide"), FieldRef("Wide", "y", "J")>>,
          <<Field("pad", "I", TRUE), Field("y", "J", TRUE)>>,
          <<Method("main", MainDescriptor,
                   Some(Code(<<iconst_1, iconst_2, putstatic, 0, 2,
                               getstatic, 0, 2, pop, pop, return>>, <<>>)))>>)

\* static void take(long a, int b) {}; main: take((the cells 1, 2), 5)
Args ==
    Class("Args", Some("java/lang/Object"), <<>>,
          <<ClassInfo("Args"),
            MethodRef("Args", "take", MethodDescriptor(<<"J", "I">>, "V"))>>,
          <<>>,
          <<Method("main", MainDescriptor,
                   Some(Code(<<iconst_1, iconst_2, iconst_5, invokestatic, 0, 2,
                               return>>, <<>>))),
            Method("take", MethodDescriptor(<<"J", "I">>, "V"),
                   Some(Code(<<return>>, <<>>)))>>)

\* main: System.identityHashCode(5); System.nanoTime();
\* System.registerNatives(); new Natives().hashCode(); new Natives().getClass();
\* System.arraycopy(new byte[2], 0, new byte[2], 0, 2); poke(), a native method
\* of the class itself
Natives ==
    Class("Natives", Some("java/lang/Object"), <<>>,
          <<ClassInfo("Natives"),
            MethodRef("java/lang/System", "identityHashCode",
                      MethodDescriptor(<<"L">>, "I")),
            MethodRef("java/lang/System", "nanoTime", MethodDescriptor(<<>>, "J")),
            MethodRef("java/lang/System", "registerNatives", VoidDescriptor),
            MethodRef("java/lang/Object", "hashCode", MethodDescriptor(<<>>, "I")),
            MethodRef("java/lang/Object", "getClass", MethodDescriptor(<<>>, "L")),
            MethodRef("java/lang/System", "arraycopy",
                      MethodDescriptor(<<"L", "I", "L", "I", "I">>, "V")),
            MethodRef("Natives", "poke", VoidDescriptor)>>,
          <<>>,
          <<Method("main", MainDescriptor,
                   Some(Code(<<iconst_5, invokestatic, 0, 2, pop,
                               invokestatic, 0, 3, pop, pop,
                               invokestatic, 0, 4,
                               new, 0, 1, invokevirtual, 0, 5, pop,
                               new, 0, 1, invokevirtual, 0, 6, pop,
                               iconst_2, newarray, 8, iconst_0,
                               iconst_2, newarray, 8, iconst_0, iconst_2,
                               invokestatic, 0, 7,
                               invokestatic, 0, 8,
                               return>>, <<>>))),
            Method("poke", VoidDescriptor, None)>>)

\* main calls a static method that neither Konst nor java/lang/Object declares
Missing ==
    Class("Missing", Some("java/lang/Object"), <<>>,
          <<ClassInfo("Missing"), MethodRef("Konst", "nope", VoidDescriptor)>>,
          <<>>,
          <<Method("main", MainDescriptor,
                   Some(Code(<<invokestatic, 0, 2, return>>, <<>>)))>>)

\* Host.class; the file Alias.class is a copy of it, so it declares the class
\* Host, and the class Impl names Alias as an interface
Host ==
    Class("Host", Some("java/lang/Object"), <<>>,
          <<ClassInfo("Host"), ClassInfo("Impl")>>,
          <<>>,
          <<Method("main", MainDescriptor,
                   Some(Code(<<new, 0, 2, pop, new, 0, 2, pop, return>>, <<>>)))>>)

\* class Outer { long w; int x; }   class Shadow extends Outer { int x; int z; }
\* main of Shadow: o = new Shadow; o.(Outer.x) = 1; o.(Shadow.x) = 2; read both
Shadow ==
    Class("Shadow", Some("Outer"), <<>>,
          <<ClassInfo("Shadow"), FieldRef("Outer", "x", "I"),
            FieldRef("Shadow", "x", "I"), FieldRef("Shadow", "z", "I")>>,
          <<Field("x", "I", FALSE), Field("z", "I", FALSE)>>,
          <<Method("main", MainDescriptor,
                   Some(Code(<<new, 0, 1, dup, iconst_1, putfield, 0, 2,
                               dup, iconst_2, putfield, 0, 3,
                               dup, getfield, 0, 2, pop, getfield, 0, 3, pop,
                               return>>, <<>>)))>>)

\* main with max_locals = 22: long v = (the cells 1, 2), kept in the locals 20, 21
Locals ==
    Class("Locals", Some("java/lang/Object"), <<>>, <<ClassInfo("Locals")>>, <<>>,
          <<Method("main", MainDescriptor,
                   Some(CodeLocals(<<iconst_1, iconst_2, lstore, 20, lload, 20,
                                     pop, pop, return>>, <<>>, 22)))>>)

\* main: target.class.initClassName()
NameOf(this, target) ==
    Class(this, Some("java/lang/Object"), <<>>,
          <<ClassInfo(this), ClassInfo(target),
            MethodRef("java/lang/Class", "initClassName", MethodDescriptor(<<>>, "L"))>>,
          <<>>,
          <<Method("main", MainDescriptor,
                   Some(Code(<<ldc, 2, invokevirtual, 0, 3, pop, return>>, <<>>)))>>)

\* try { Thrower.raise(); } catch (Boom e) { }: the invoke is the last
\* instruction of the range [0, 3)
Edge ==
    Class("Edge", Some("java/lang/Object"), <<>>,
          <<ClassInfo("Edge"), ClassInfo("Boom"),
            MethodRef("Thrower", "raise", VoidDescriptor)>>,
          <<>>,
          <<Method("main", MainDescriptor,
                   Some(Code(<<invokestatic, 0, 3, return, pop, return>>,
                             <<ExceptionTableItem(0, 3, 4, 2)>>)))>>)

\* the bytes of the Utf8 entries the String constant of Alu names: the empty
\* text, one to four bytes per character, and the forms of modified UTF-8 that
\* are not UTF-8 (U+0000 as C0 80, a supplementary character as two surrogates)
Utf8Entries ==
    {<<>>, <<72, 105>>, <<195, 169>>, <<72, 226, 130, 172>>, <<240, 159, 152, 128>>,
     <<192, 128>>, <<237, 160, 189, 237, 184, 128>>}

\* the files Alu.class that are run
AluPrograms ==
    LET Ints(vs) == {IntegerConst(v) : v \in vs}
    IN  [op : {idiv}, a : Ints({MinI32, -7}), b : Ints({-1, 2})]
        \cup [op : {ishl, ishr, iushr}, a : Ints({-8}), b : Ints({1, 33, -1})]
        \cup [op : {lshl, lushr}, a : Ints({5, -8}), b : Ints({1, 65})]
        \cup [op : {ladd, lmul, land, lxor, lcmp}, a : Ints({3, -1}), b : Ints({1, -2})]
        \cup [op : {i2b, i2l}, a : Ints({127, 128, -129, 511}), b : Ints({0})]
        \cup [op : {aaload, baload, caload}, a : Ints({0, 2}), b : Ints({-1, 0, 1, 2})]
        \cup [op : {lstore} \cup (lstore_0..lstore_3), a : Ints({1, -2}), b : Ints({3})]
        \cup [op : {bastore}, a : Ints({127, 128, 300, -1}), b : Ints({0, 2})]
        \cup [op : {getfield},
              a : {ConstantStringInfo(bytes) : bytes \in {<<72, 105>>, <<195, 169>>}},
              b : {FieldRef("java/lang/String", "value", "[")}]
        \cup [op : {ldc, ldc_w},
              a : {ConstantStringInfo(bytes) : bytes \in Utf8Entries},
              b : Ints({0})]

\* load_class: the files <name>.class found on the class path, parsed
ParsedFiles ==
    [n \in {"java/lang/Object", "java/lang/Class", "java/lang/String",
            "java/lang/System", "java/lang/Throwable", "java/lang/Exception",
            "java/lang/RuntimeException", "java/lang/ArithmeticException",
            "Boom", "Konst", "Base", "Sub", "Counter", "Other", "Statics",
            "Base2", "Sub2", "Exotic", "DivZero", "RemZero", "Catch", "Thrower",
            "Propagate", "SuperCatch", "CatchAll", "Deep", "Uncaught",
            "Calls", "Alu", "Shape", "Circle", "Blob", "Virtual",
            "Early", "Twice",
            "Host", "Alias", "Impl", "Missing", "Wide",
            "Args", "Natives", "Outer", "Shadow", "Locals",
            "NameOfSelf", "NameOfWorker", "Worker", "Iface", "Edge"} |->
        CASE n = "java/lang/Object" ->
                Class(n, None, <<>>, <<ClassInfo(n)>>, <<>>,
                      <<Method("hashCode", MethodDescriptor(<<>>, "I"), None),
                        Method("getClass", MethodDescriptor(<<>>, "L"), None)>>)
          [] n = "java/lang/Class" ->
                Class(n, Some("java/lang/Object"), <<>>, <<ClassInfo(n)>>,
                      <<Field("name", "L", FALSE), Field("classRedefinedCount", "I", FALSE)>>,
                      <<Method("initClassName", MethodDescriptor(<<>>, "L"), None)>>)
          [] n = "java/lang/String" -> JavaLangString
          [] n = "java/lang/System" -> JavaLangSystem
          [] n = "java/lang/Throwable" ->
                Plain(n, "java/lang/Object", <<Field("detailMessage", "L", FALSE)>>)
          [] n = "java/lang/Exception" -> Plain(n, "java/lang/Throwable", <<>>)
          [] n = "java/lang/RuntimeException" -> Plain(n, "java/lang/Exception", <<>>)
          [] n = "java/lang/ArithmeticException" ->
                Plain(n, "java/lang/RuntimeException", <<>>)
          [] n = "Boom" -> Plain(n, "java/lang/Exception", <<Field("code", "I", FALSE)>>)
          [] n = "Konst" -> Plain(n, "java/lang/Object", <<Field("K", "I", TRUE)>>)
          [] n = "Base" ->
                Plain(n, "java/lang/Object",
                      <<Field("a", "J", FALSE), Field("bs", "D", TRUE), Field("b", "I", FALSE)>>)
          [] n = "Sub" -> Sub
          [] n = "Counter" -> Counter
          [] n = "Other" -> Other
          [] n = "Statics" -> Statics
          [] n = "Base2" -> Base2
          [] n = "Sub2" -> Sub2
          [] n = "Exotic" -> Exotic
          [] n = "DivZero" -> DivZero
          [] n = "RemZero" -> RemZero
          [] n = "Catch" -> Catch
          [] n = "Thrower" -> Thrower
          [] n = "Propagate" -> Propagate
          [] n = "SuperCatch" -> SuperCatch
          [] n = "CatchAll" -> CatchAll
          [] n = "Deep" -> Deep
          [] n = "Uncaught" -> Uncaught
          [] n = "Calls" -> Calls
          [] n = "Alu" -> Alu
          [] n = "Shape" -> Shape(n, "java/lang/Object", <<Get(iconst_1)>>)
          [] n = "Circle" -> Shape(n, "Shape", <<Get(iconst_2)>>)
          [] n = "Blob" -> Shape(n, "Shape", <<>>)
          [] n = "Virtual" -> Virtual
          [] n = "Early" -> Early
          [] n = "Missing" -> Missing
          [] n = "Wide" -> Wide
          [] n = "Args" -> Args
          [] n = "Natives" -> Natives
          [] n = "Shadow" -> Shadow
          [] n = "Locals" -> Locals
          [] n = "Edge" -> Edge
          [] n = "NameOfSelf" -> NameOf(n, n)
          [] n = "NameOfWorker" -> NameOf(n, "Worker")
          [] n = "Iface" -> Plain(n, "java/lang/Object", <<>>)
          [] n = "Worker" ->
                Class(n, Some("java/lang/Object"), <<"Iface">>, <<ClassInfo(n)>>, <<>>, <<>>)
          [] n = "Outer" ->
                Plain(n, "java/lang/Object",
                      <<Field("w", "J", FALSE), Field("x", "I", FALSE)>>)
          [] n = "Host" -> Host
          [] n = "Alias" -> Host
          [] n = "Impl" ->
                Class(n, Some("java/lang/Object"), <<"Alias">>, <<ClassInfo(n)>>, <<>>, <<>>)
          [] n = "Twice" -> Plain(n, "java/lang/Object", <<Field("here", "I", TRUE)>>)]

\* the directory of the JDK's java.base module, second on the class path
JavaBase == "../../openjdk/jdk11u/build/linux-x86_64-normal-server-release/jdk/modules/java.base"

class_path == <<".", JavaBase>>

\* the names with a file <name>.class in the java.base directory
JavaBaseNames ==
    {"java/lang/Object", "java/lang/Class", "java/lang/String", "java/lang/System",
     "java/lang/Throwable", "java/lang/Exception", "java/lang/RuntimeException",
     "java/lang/ArithmeticException", "Twice"}

\* the names with a file <name>.class in the working directory
LocalNames == (DOMAIN ParsedFiles \ JavaBaseNames) \cup {"Twice"}

\* Path::new(directory).join(name + ".class").exists()
Exists(directory, name) ==
    IF directory = JavaBase THEN name \in JavaBaseNames ELSE name \in LocalNames

\* the parsed contents of <directory>/<name>.class; Twice.class differs between the directories
FileAt(directory, name) ==
    IF directory = JavaBase /\ name = "Twice"
    THEN Plain(name, "java/lang/Object", <<Field("there", "I", TRUE)>>)
    ELSE ParsedFiles[name]

\* the loop of load_class over the class path: every directory holding the file
\* overwrites path
RECURSIVE FindPath(_, _, _)
FindPath(name, i, path) ==
    IF i > Len(class_path) THEN path
    ELSE FindPath(name, i + 1, IF Exists(class_path[i], name) THEN Some(class_path[i]) ELSE path)

\* the class file load_class parses for a name, for the names it finds a path for
ClassFiles ==
    [n \in DOMAIN ParsedFiles |-> FileAt(Unwrap(FindPath(n, 1, None)), n)]

\* the classes `run <binary-class-name>` is started with
MainClasses ==
    {"Statics", "Exotic", "DivZero", "RemZero", "Catch", "Propagate",
     "SuperCatch", "CatchAll", "Deep", "Uncaught", "Calls", "Alu", "Virtual",
     "Host", "Missing", "Wide", "Args", "Natives", "Shadow",
     "Locals", "NameOfSelf", "NameOfWorker", "Edge"}

(***************************************************************************)
(* Heap                                                                    *)
(***************************************************************************)
HeapItem(d, data) == [field_descriptor |-> d, data |-> data]

\* the type descriptor of an object, as format!("L{};", name) writes it and
\* parse_field_descriptor reads it back: the leading character and the name
NullDescriptor == [tag |-> "n", name |-> "ull"]
ClassDescriptor(name) == [tag |-> "L", name |-> name]

\* Heap::new: the heap starts with the "null" item at index 0
HeapNew == <<HeapItem(NullDescriptor, <<>>)>>

HeapStoreOverLast(h, d, data) ==
    [heap |-> [h EXCEPT ![Len(h)] = HeapItem(d, data)], ref |-> Len(h) - 1]
\* Heap::store: the new heap and the reference (the index) of the new item
HeapStore(h, d, data) == [heap |-> Append(h, HeapItem(d, data)), ref |-> Len(h)]

\* heap.data.get(ref)
HeapGet(h, ref) == IF ref < Len(h) THEN Some(h[ref + 1]) ELSE None

RECURSIVE Zeros(_)
Zeros(n) == IF n = 0 THEN <<>> ELSE Append(Zeros(n - 1), 0)

RECURSIVE Flatten(_)
Flatten(ss) == IF ss = <<>> THEN <<>> ELSE Head(ss) \o Flatten(Tail(ss))

\* Heap::allocate_klass: one zero cell per unit of width of every instance field
AllocateKlass(h, klass) ==
    HeapStore(h, ClassDescriptor(klass.name),
              Flatten([i \in 1..Len(klass.fields) |-> Zeros(klass.fields[i].field_width)]))

(***************************************************************************)
(* Method area                                                             *)
(***************************************************************************)
\* is_initialized that never answers true
IsInitializedNever(klass) == FALSE
\* Klass::is_initialized of InstanceKlass and of ArrayKlass
IsInitialized(klass) == IF klass.kind = "array" THEN TRUE ELSE klass.initialized

\* InstanceKlass::is_linked
IsLinked(klass) == IsSome(klass.constant_pool)

\* the InstanceKlass that load_class hands to add_class
InstanceKlass(name) ==
    [kind |-> "instance", name |-> name, parsed_class |-> name,
     constant_pool |-> None, static_field_values |-> <<>>,
     fields |-> <<>>, static_fields |-> <<>>,
     java_clone |-> None, initialized |-> FALSE]

ArrayKlass(name, clone) ==
    [kind |-> "array", name |-> name, parsed_class |-> name,
     constant_pool |-> None, static_field_values |-> <<>>,
     fields |-> <<>>, static_fields |-> <<>>,
     java_clone |-> Some(clone), initialized |-> TRUE]

\* the KlassField add_class builds for a parsed field
KlassField(class_name, field) ==
    [class_name |-> class_name, field_name |-> field.name,
     field_type |-> field.field_type,
     field_width |-> IF field.field_type \in {"J", "D"} THEN 2 ELSE 1,
     parsed_field |-> field]

\* MethodArea::add_class with the superclass's fields after the class's own
AddClassOwnFirst(cls, class_name, klass) ==
    LET parsed == class_files[klass.parsed_class]
        all == [i \in 1..Len(parsed.fields) |-> KlassField(class_name, parsed.fields[i])]
        own == SelectSeq(all, LAMBDA f : ~f.parsed_field.access.static)
        fields == IF IsSome(parsed.super_class)
                  THEN own \o cls[Unwrap(parsed.super_class)].fields
                  ELSE own
    IN  (class_name :> [klass EXCEPT !.fields = fields,
                                     !.static_fields =
                                        SelectSeq(all, LAMBDA f : f.parsed_field.access.static)])
        @@ cls

\* MethodArea::add_class
AddClass(cls, class_name, klass) ==
    LET parsed == class_files[klass.parsed_class]
        all == [i \in 1..Len(parsed.fields) |-> KlassField(class_name, parsed.fields[i])]
        own == SelectSeq(all, LAMBDA f : ~f.parsed_field.access.static)
        static_fields == SelectSeq(all, LAMBDA f : f.parsed_field.access.static)
        fields == IF IsSome(parsed.super_class)
                  THEN cls[Unwrap(parsed.super_class)].fields \o own
                  ELSE own
    IN  (class_name :> [klass EXCEPT !.fields = fields, !.static_fields = static_fields])
        @@ cls

(***************************************************************************)
(* Class lifecycle driver.  The operations thread a record                 *)
(*   [ok, err, classes, heap, clinit]                                      *)
(* through load, link and init: ok is FALSE once a step has returned Err   *)
(* or panicked (err is then the set of messages the builds can produce),   *)
(* and clinit is the frame init_class built for <clinit>, if it built one. *)
(***************************************************************************)
\* `let v = ..;` and the rest of the function behind it
Then(v, rest(_)) == CHOOSE r \in {rest(x) : x \in {v}} : TRUE

Global(cls, h) == [ok |-> TRUE, err |-> {}, classes |-> cls, heap |-> h, clinit |-> None]
Fail(g, msgs) == [g EXCEPT !.ok = FALSE, !.err = msgs]

RECURSIVE LoadClass(_, _)
RECURSIVE LoadInterfaces(_, _, _)

\* the `for interface in class.interfaces.iter()` of load_class
LoadInterfaces(g, ifs, i) ==
    IF ~g.ok \/ i > Len(ifs) THEN g
    ELSE LoadInterfaces(LoadClass(g, ifs[i]), ifs, i + 1)

\* GlobalMemory::load_class
LoadClass(g, name) ==
    IF ~g.ok THEN g
    ELSE IF name \in DOMAIN g.classes THEN g
    ELSE IF name \notin DOMAIN class_files THEN Fail(g, {"file not found"})
    ELSE IF name \in Unparsable
    THEN Fail(g, {"called Result::unwrap() on an Err value: FromUtf8Error"})
    ELSE LET class == class_files[name]
             g1 == IF IsSome(class.super_class)
                   THEN LoadClass(g, Unwrap(class.super_class))
                   ELSE g
         IN  Then(LoadInterfaces(g1, class.interfaces, 1), LAMBDA g2 :
             IF ~g2.ok THEN g2
             ELSE [g2 EXCEPT !.classes =
                        AddClass(g2.classes, class.this_class,
                                 InstanceKlass(class.this_class))])

\* one cell for a static field whatever its type
StaticCellsOneEach(field) == <<0>>
\* the cells link_class pushes for a static field
StaticCells(field) == IF field.field_type \in {"J", "D"} THEN <<0, 0>> ELSE <<0>>

RECURSIVE LinkClass(_, _)
\* GlobalMemory::link_class
LinkClass(g, class_name) ==
    IF ~g.ok THEN g
    ELSE IF class_name \notin DOMAIN g.classes THEN Fail(g, {"class not found"})
    ELSE IF g.classes[class_name].kind # "instance" THEN Fail(g, {"not an InstanceKlass"})
    ELSE IF IsLinked(g.classes[class_name]) THEN g
    ELSE LET class == class_files[g.classes[class_name].parsed_class]
             linked == IF IsSome(class.super_class)
                       THEN LinkClass(g, Unwrap(class.super_class))
                       ELSE g
         IN  Then(linked, LAMBDA g1 :
             IF ~g1.ok THEN g1
             ELSE IF class_name \notin DOMAIN g1.classes THEN Fail(g1, {"class not found"})
             ELSE LET klass == g1.classes[class_name]
                      field_values ==
                          Flatten([i \in 1..Len(klass.static_fields) |->
                                       StaticCells(klass.static_fields[i])])
                  IN  IF "java/lang/Class" \notin DOMAIN g1.classes
                      THEN Fail(g1, {"class not found in method area 1 :("})
                      ELSE IF g1.classes["java/lang/Class"].kind # "instance"
                      THEN Fail(g1, {"not an InstanceKlass"})
                      ELSE LET st == AllocateKlass(g1.heap, g1.classes["java/lang/Class"])
                           IN  IF class.this_class \notin DOMAIN g1.classes
                               THEN Fail([g1 EXCEPT !.heap = st.heap], {"what?"})
                               ELSE [g1 EXCEPT
                                       !.heap = st.heap,
                                       !.classes[class.this_class].constant_pool =
                                           Some(class.constant_pool),
                                       !.classes[class.this_class].static_field_values =
                                           @ \o field_values,
                                       !.classes[class.this_class].java_clone = Some(st.ref)])

(***************************************************************************)
(* Frame constructor                                                       *)
(***************************************************************************)
FirstMatch(methods, method_name, type_descriptor) ==
    SelectSeq(methods, LAMBDA m : m.name = method_name /\ m.descriptor = type_descriptor)

RECURSIVE FrameNew(_, _, _, _)
\* Frame::new: [ok, err, frame]
FrameNew(cls, class_name, method_name, type_descriptor) ==
    IF class_name \notin DOMAIN cls
    THEN [ok |-> FALSE, err |-> {"Class not found " \o class_name \o " :("},
          frame |-> None]
    ELSE IF cls[class_name].kind # "instance"
    THEN [ok |-> FALSE, err |-> {"called Option::unwrap on a None value"},
          frame |-> None]
    ELSE LET parsed_class == class_files[cls[class_name].parsed_class]
             found == FirstMatch(parsed_class.methods, method_name, type_descriptor)
         IN  IF found = <<>>
             THEN IF IsSome(parsed_class.super_class)
                  THEN FrameNew(cls, Unwrap(parsed_class.super_class), method_name,
                                type_descriptor)
                  ELSE [ok |-> FALSE,
                        err |-> {"called Option::unwrap on a None value"},
                        frame |-> None]
             ELSE LET current_method == found[1]
                  IN  IF ~IsSome(cls[class_name].constant_pool)
                      THEN [ok |-> FALSE, err |-> {"couldnt find stuff"}, frame |-> None]
                      ELSE [ok |-> TRUE, err |-> {},
                            frame |-> Some(
                              [local_variables |-> Zeros(LocalsSize),
                               operand_stack |-> <<>>,
                               constant_pool |-> class_name,
                               code_bytes |->
                                   IF current_method.access.native THEN None
                                   ELSE Some(Unwrap(current_method.code).bytes),
                               exception_table |->
                                   IF current_method.access.native THEN None
                                   ELSE Some(Unwrap(current_method.code).exception_table),
                               instruction_counter |-> 0,
                               class_name |-> class_name,
                               method |-> [name |-> current_method.name,
                                           descriptor |-> current_method.descriptor],
                               running_native |-> FALSE])]

\* the flag is set this early for the classes of the java.base module only
MarkInitializedNot(g, class_name) ==
    IF class_name \in JavaBaseNames
    THEN [g EXCEPT !.classes[class_name].initialized = TRUE]
    ELSE g
\* init_class sets the flag before it looks for <clinit>
MarkInitialized(g, class_name) == [g EXCEPT !.classes[class_name].initialized = TRUE]

\* GlobalMemory::init_class
InitClass(g, class_name) ==
    IF ~g.ok THEN g
    ELSE IF class_name \notin DOMAIN g.classes THEN Fail(g, {"class not found"})
    ELSE IF g.classes[class_name].kind # "instance"
    THEN Fail(g, {"called Option::unwrap on a None value"})
    ELSE IF IsInitialized(g.classes[class_name]) THEN g
    ELSE LET g1 == MarkInitialized(g, class_name)
             methods == class_files[g1.classes[class_name].parsed_class].methods
         IN  IF \E i \in 1..Len(methods) : methods[i].name = "<clinit>"
             THEN Then(FrameNew(g1.classes, class_name, "<clinit>", VoidDescriptor),
                       LAMBDA f :
                           IF f.ok THEN [g1 EXCEPT !.clinit = f.frame]
                           ELSE Fail(g1, f.err))
             ELSE g1

\* GlobalMemory::ensure_class, up to the run of the <clinit> frame it built
EnsureClass(cls, h, name) ==
    IF name \in DOMAIN cls /\ IsInitialized(cls[name])
    THEN Global(cls, h)
    ELSE Then(IF name \in DOMAIN cls
              THEN Then(LinkClass(Global(cls, h), name), LAMBDA g0 : LoadClass(g0, name))
              ELSE Global(cls, h), LAMBDA g1 :
         Then(LoadClass(g1, name), LAMBDA g2 :
         Then(LinkClass(g2, name), LAMBDA g3 : InitClass(g3, name))))

\* ensure_array that hands every array record the mirror of java/lang/Class
EnsureArrayOneMirror(cls, h, array_type) ==
    IF array_type \in DOMAIN cls THEN Global(cls, h)
    ELSE IF "java/lang/Class" \notin DOMAIN cls
    THEN Fail(Global(cls, h), {"class not found in method area 1 :("})
    ELSE Global((array_type :> ArrayKlass(array_type,
                                          Unwrap(cls["java/lang/Class"].java_clone)))
                    @@ cls, h)

\* GlobalMemory::ensure_array
EnsureArray(cls, h, array_type) ==
    IF array_type \in DOMAIN cls THEN Global(cls, h)
    ELSE IF "java/lang/Class" \notin DOMAIN cls
    THEN Fail(Global(cls, h), {"class not found in method area 1 :("})
    ELSE LET st == AllocateKlass(h, cls["java/lang/Class"])
         IN  Global((array_type :> ArrayKlass(array_type, st.ref)) @@ cls, st.heap)

(***************************************************************************)
(* Threads and frames                                                      *)
(***************************************************************************)
\* Thread { thread_memory: ThreadMemory { jvm_stack }, is_throwing }, with
\*   at:     "idle" (no run in progress), "loop" (at the start of an iteration
\*           of the loop of Thread::run) or "ensure" (inside an instruction,
\*           waiting for the <clinit> run that its ensure_class call started)
\*   thrown: history, the last objectref this thread gave to handle_exception
\*   hx:     history, what handle_exception did in the thread's last iteration
Thread(stack, at) ==
    [jvm_stack |-> stack, is_throwing |-> FALSE, at |-> at,
     thrown |-> None, hx |-> "none"]

CurrentFrame(th) == Last(th.jvm_stack)
SetFrame(th, fr) == [th EXCEPT !.jvm_stack[Len(th.jvm_stack)] = fr]
Push(fr, v) == [fr EXCEPT !.operand_stack = Append(@, v)]
Advance(fr, n) == [fr EXCEPT !.instruction_counter = @ + n]

\* code_bytes.get(i)
ByteAt(fr, i) ==
    IF i < Len(Unwrap(fr.code_bytes)) THEN Some(Unwrap(fr.code_bytes)[i + 1]) ELSE None

\* frame.constant_pool.upgrade(): the pool of the class the frame was built for
Upgrade(cls, fr) ==
    IF fr.constant_pool \in DOMAIN cls THEN cls[fr.constant_pool].constant_pool ELSE None

\* pool.get((index - 1) as usize) after the upgrade: [ok, err, constant]
PoolGet(cls, fr, index, missing) ==
    LET pool == Upgrade(cls, fr)
    IN  IF ~IsSome(pool)
        THEN [ok |-> FALSE, err |-> {"no constant_pool"}, constant |-> None]
        ELSE IF index = 0
        THEN [ok |-> FALSE, err |-> {"attempt to subtract with overflow", missing},
              constant |-> None]
        ELSE IF index > Len(Unwrap(pool))
        THEN [ok |-> FALSE, err |-> {missing}, constant |-> None]
        ELSE [ok |-> TRUE, err |-> {}, constant |-> Some(Unwrap(pool)[index])]

\* the characters parse_field_type accepts as the start of a field type
FieldTypeChars == {"L", "[", "I", "J", "Z", "B", "C", "S", "D", "F"}

\* the result of one step of a thread:
\*   ok = FALSE: the step returned Err or panicked, with one of the messages err;
\*   clinit: the <clinit> frame to run before the instruction goes on;
\*   break: the loop of Thread::run was left
Done(th, cls, h) ==
    [ok |-> TRUE, err |-> {}, th |-> th, classes |-> cls, heap |-> h,
     clinit |-> None, break |-> FALSE]
Failed(th, cls, h, msgs) == [Done(th, cls, h) EXCEPT !.ok = FALSE, !.err = msgs]

RECURSIVE FindHandler(_, _, _, _)
\* the `for item in current_frame.exception_table` of handle_exception:
\* [ok, err, item], item the first entry that matches
FindHandler(cls, fr, field_info_name, i) ==
    LET table == Unwrap(fr.exception_table)
    IN  IF i > Len(table) THEN [ok |-> TRUE, err |-> {}, item |-> None]
        ELSE LET item == table[i]
                 c == PoolGet(cls, fr, item.catch_type, "no constant")
             IN  IF ~c.ok THEN [ok |-> FALSE, err |-> c.err, item |-> None]
                 ELSE IF Unwrap(c.constant).tag # "Class"
                 THEN [ok |-> FALSE, err |-> {"not a class_info"}, item |-> None]
                 ELSE IF /\ item.start_pc <= fr.instruction_counter
                         /\ item.end_pc > fr.instruction_counter
                         /\ Unwrap(c.constant).class = field_info_name
                 THEN [ok |-> TRUE, err |-> {}, item |-> Some(item)]
                 ELSE FindHandler(cls, fr, field_info_name, i + 1)

\* Thread::handle_exception
HandleException(th, cls, h, objectref) ==
    LET t == [th EXCEPT !.thrown = Some(objectref)]
        current_frame == CurrentFrame(t)
        heap_item == HeapGet(h, objectref)
    IN  IF t.jvm_stack = <<>> THEN Failed(t, cls, h, {"no item on jvm stack"})
        ELSE IF ~IsSome(heap_item) THEN Failed(t, cls, h, {"no ref"})
        ELSE IF Unwrap(heap_item).field_descriptor.tag \notin FieldTypeChars
        THEN Failed(t, cls, h, {"internal error: entered unreachable code"})
        ELSE IF Unwrap(heap_item).field_descriptor.tag # "L"
        THEN Failed(t, cls, h, {"not a class?"})
        ELSE IF ~IsSome(current_frame.exception_table)
        THEN Failed(t, cls, h, {"called Option::unwrap on a None value"})
        ELSE LET field_info_name == Unwrap(heap_item).field_descriptor.name
             IN  Then(FindHandler(cls, current_frame, field_info_name, 1), LAMBDA handler :
                 IF ~handler.ok THEN Failed(t, cls, h, handler.err)
                 ELSE IF IsSome(handler.item)
                 THEN Done([SetFrame(t, Push([current_frame EXCEPT
                                                !.instruction_counter =
                                                    Unwrap(handler.item).handler_pc],
                                             objectref))
                              EXCEPT !.hx = "found"], cls, h)
                 ELSE IF Len(t.jvm_stack) = 1
                 THEN Failed(t, cls, h, {"nowhere to go to :("})
                 ELSE LET n == Len(t.jvm_stack)
                      IN  Done([t EXCEPT
                                  !.is_throwing = TRUE,
                                  !.hx = "unwound",
                                  !.jvm_stack =
                                      Front([@ EXCEPT ![n - 1] = Push(@, objectref)])],
                               cls, h))

\* Thread::run, the head of an iteration: `if self.is_throwing { ... }`
Prologue(th, cls, h) ==
    LET t == [th EXCEPT !.hx = "none"]
    IN  IF t.jvm_stack = <<>> THEN Failed(t, cls, h, {"no item on jvm stack"})
        ELSE IF ~t.is_throwing THEN Done(t, cls, h)
        ELSE IF CurrentFrame(t).operand_stack = <<>>
        THEN Failed(t, cls, h, {"nothing to pop here"})
        ELSE HandleException(
                 SetFrame(t, [CurrentFrame(t) EXCEPT !.operand_stack = Front(@)]),
                 cls, h, Last(CurrentFrame(t).operand_stack))

(***************************************************************************)
(* Instructions.  Each operator is one arm of the `match instruction` of   *)
(* Thread::run, applied to the thread th after the head of the iteration.  *)
(* An arm that calls ensure_class is given resumed = TRUE when the thread  *)
(* comes back from the <clinit> run that this call started: the call has   *)
(* returned and the arm goes on behind it.  What an arm does to its own    *)
(* frame before the call (advancing over the index bytes, popping the      *)
(* value of putstatic) is applied when the arm goes on: the nested run     *)
(* has a frame stack of its own and cannot observe the caller's frame.     *)
(***************************************************************************)
\* the call of ensure_class inside an arm
Ensured(cls, h, name, resumed) ==
    IF resumed THEN Global(cls, h) ELSE EnsureClass(cls, h, name)

\* the arm stops at its ensure_class call, which built a <clinit> frame
Suspended(th, g) == [Done(th, g.classes, g.heap) EXCEPT !.clinit = g.clinit]

\* indexbyte1, indexbyte2 behind the opcode: [ok, index]
IndexBytes(fr) ==
    LET b1 == ByteAt(fr, fr.instruction_counter + 1)
        b2 == ByteAt(fr, fr.instruction_counter + 2)
    IN  IF IsSome(b1) /\ IsSome(b2)
        THEN [ok |-> TRUE, index |-> (Unwrap(b1) * 256 + Unwrap(b2)) % 65536]
        ELSE [ok |-> FALSE, index |-> 0]

\* iconst_i
ExecIconst(th, cls, h, resumed) ==
    LET fr == CurrentFrame(th)
        instruction == Unwrap(ByteAt(fr, fr.instruction_counter))
    IN  Done(SetFrame(th, Advance(Push(fr, instruction - 3), 1)), cls, h)

\* bipush
ExecBipush(th, cls, h, resumed) ==
    LET fr == CurrentFrame(th)
        byte == ByteAt(fr, fr.instruction_counter + 1)
    IN  IF ~IsSome(byte) THEN Failed(th, cls, h, {"no bytes"})
        ELSE LET as_i8 == IF Unwrap(byte) >= 128 THEN Unwrap(byte) - 256 ELSE Unwrap(byte)
             IN  Done(SetFrame(th, Advance(Push(fr, as_i8), 2)), cls, h)

StringChars(text) == text
\* String::bytes of a text given as its code points: UTF-8
RECURSIVE StringBytes(_)
StringBytes(text) ==
    IF text = <<>> THEN <<>>
    ELSE LET c == Head(text)
             encoded ==
                 IF c < 128 THEN <<c>>
                 ELSE IF c < 2048 THEN <<192 + (c \div 64), 128 + (c % 64)>>
                 ELSE IF c < 65536
                 THEN <<224 + (c \div 4096), 128 + ((c \div 64) % 64), 128 + (c % 64)>>
                 ELSE <<240 + (c \div 262144), 128 + ((c \div 4096) % 64),
                        128 + ((c \div 64) % 64), 128 + (c % 64)>>
         IN  encoded \o StringBytes(Tail(text))

\* InstanceKlass::field_offset_with_strings: [ok, offset]; the class name is
\* not compared
RECURSIVE FieldOffset(_, _, _, _, _)
FieldOffset(fields, searched_class_name, searched_field_name, i, offset) ==
    IF i > Len(fields) THEN [ok |-> FALSE, offset |-> 0]
    ELSE IF searched_field_name # fields[i].field_name
    THEN FieldOffset(fields, searched_class_name, searched_field_name,
                     i + 1, offset + fields[i].field_width)
    ELSE [ok |-> TRUE, offset |-> offset]

\* the descriptor Heap::store is given for a byte array, "[B"
ByteArrayDescriptor == [tag |-> "[", name |-> "B"]

\* java_string_from_string: [ok, err, heap, ref]
JavaStringFromString(cls, h, string) ==
    IF "java/lang/String" \notin DOMAIN cls
    THEN [ok |-> FALSE, err |-> {"class not found in method area 2 :("},
          heap |-> h, ref |-> 0]
    ELSE IF cls["java/lang/String"].kind # "instance"
    THEN [ok |-> FALSE, err |-> {"not an InstanceKlass"}, heap |-> h, ref |-> 0]
    ELSE LET klass == cls["java/lang/String"]
             str == AllocateKlass(h, klass)
             arr == HeapStore(str.heap, ByteArrayDescriptor, StringBytes(string))
             value_field_offset ==
                 FieldOffset(klass.fields, "java/lang/String", "value", 1, 0)
             coder_field_offset ==
                 FieldOffset(klass.fields, "java/lang/String", "coder", 1, 0)
             cells == Len(arr.heap[str.ref + 1].data)
         IN  IF ~value_field_offset.ok \/ ~coder_field_offset.ok
             THEN [ok |-> FALSE, err |-> {"couldnt calculate field offset"},
                   heap |-> arr.heap, ref |-> 0]
             ELSE IF \/ value_field_offset.offset >= cells
                     \/ coder_field_offset.offset >= cells
             THEN [ok |-> FALSE, err |-> {"index out of bounds"},
                   heap |-> arr.heap, ref |-> 0]
             ELSE [ok |-> TRUE, err |-> {},
                   heap |-> [arr.heap EXCEPT
                                ![str.ref + 1].data =
                                    [[@ EXCEPT ![value_field_offset.offset + 1] = arr.ref]
                                        EXCEPT ![coder_field_offset.offset + 1] = 1]],
                   ref |-> str.ref]

\* the class names that start with "[" and, where the element type is a class
\* instance, that class (parse_field_descriptor, as_array, as_class_instance)
ArrayElementClass ==
    [n \in {"[Z", "[B", "[S", "[C", "[I", "[J", "[F", "[D", "[Ljava/lang/Object;"} |->
        IF n = "[Ljava/lang/Object;" THEN Some("java/lang/Object") ELSE None]

\* the Constant::Class arm of ldc: the class is ensured and its java_clone pushed
LdcClass(th, fr, cls, h, name, resumed) ==
    LET inner == IF name \in DOMAIN ArrayElementClass THEN ArrayElementClass[name] ELSE None
        ensured == IF name \notin DOMAIN ArrayElementClass
                   THEN Ensured(cls, h, name, resumed)
                   ELSE IF IsSome(inner) THEN Ensured(cls, h, Unwrap(inner), resumed)
                   ELSE Global(cls, h)
    IN  Then(ensured, LAMBDA g :
        IF ~g.ok THEN Failed(th, g.classes, g.heap, g.err)
        ELSE IF IsSome(g.clinit) THEN Suspended(th, g)
        ELSE Then(IF name \in DOMAIN ArrayElementClass
                  THEN EnsureArray(g.classes, g.heap, name) ELSE g, LAMBDA a :
             IF ~a.ok THEN Failed(th, a.classes, a.heap, a.err)
             ELSE IF name \notin DOMAIN a.classes
             THEN Failed(th, a.classes, a.heap, {"no class 2"})
             ELSE IF ~IsSome(a.classes[name].java_clone)
             THEN Failed(th, a.classes, a.heap, {"called Option::unwrap on a None value"})
             ELSE Done(SetFrame(th, Advance(Push(fr, Unwrap(a.classes[name].java_clone)), 1)),
                       a.classes, a.heap)))

(***************************************************************************)
(* Native methods.  run_native_methods matches on the frame's class and    *)
(* method name.  The arms modelled are those of the classes whose class    *)
(* files the model holds: java/lang/Object, java/lang/Class                *)
(* (registerNatives, desiredAssertionStatus0), java/lang/System and        *)
(* java/lang/Throwable, and the arms that panic for every other method or  *)
(* class.  The remaining arms (Float, Double, StringUTF16, Unsafe, Runtime,*)
(* Thread, VM, Class.initClassName, Class.getPrimitiveClass) push 0, 1 or  *)
(* 2 cells on the invoker in the same way, and no frame of their classes   *)
(* can be built from the model's class files.                              *)
(***************************************************************************)
\* the values SystemTime::now() can give to nanoTime, as the two u32 halves of
\* the nanoseconds since the epoch
Timestamps == {<<397000000, 0>>, <<397000001, -1>>}

\* the pushes land on the native frame itself
NativeReturnOnSelf(th, cls, h, cells) ==
    Done(SetFrame(th, [CurrentFrame(th) EXCEPT !.operand_stack = @ \o cells]), cls, h)

\* thread.thread_memory.jvm_stack.len() - 2 and get_mut(..).ok_or("no invoker"),
\* then the pushes on the invoker's operand stack; Thread::run pops the native
\* frame behind it.  With one frame the subtraction overflows: a panic in a
\* build with overflow checks, Err("no invoker") in one without
NativeReturn(th, cls, h, cells) ==
    LET depth == Len(th.jvm_stack)
    IN  IF depth < 2
        THEN Failed(th, cls, h, {"attempt to subtract with overflow", "no invoker"})
        ELSE Done([th EXCEPT !.jvm_stack =
                      Front([@ EXCEPT ![depth - 1].operand_stack = @ \o cells])],
                  cls, h)

\* System.arraycopy: the `for i in 0..length` copy between two heap items
NativeArraycopy(th, cls, h) ==
    LET locals == CurrentFrame(th).local_variables
        src_ref == locals[1]
        src_pos == locals[2]
        dest_ref == locals[3]
        dest_pos == locals[4]
        length == locals[5]
    IN  IF ~IsSome(HeapGet(h, src_ref)) \/ ~IsSome(HeapGet(h, dest_ref))
             \/ src_ref < 0 \/ dest_ref < 0
        THEN Failed(th, cls, h, {"array not on heap"})
        ELSE LET src_array_data == h[src_ref + 1].data
                 target == h[dest_ref + 1].data
             IN  IF \E i \in 0..(length - 1) :
                        \/ dest_pos + i < 0 \/ dest_pos + i >= Len(target)
                        \/ src_pos + i < 0 \/ src_pos + i >= Len(src_array_data)
                 THEN Failed(th, cls, h, {"index out of bounds"})
                 ELSE Done([th EXCEPT !.jvm_stack = Front(@)], cls,
                           [h EXCEPT ![dest_ref + 1].data =
                               [k \in 1..Len(target) |->
                                   IF k - 1 - dest_pos \in 0..(length - 1)
                                   THEN src_array_data[k - dest_pos + src_pos]
                                   ELSE target[k]]])

\* Object.getClass: the mirror of the class named by the item's descriptor
NativeGetClass(th, cls, h) ==
    LET this_ref == CurrentFrame(th).local_variables[1]
        heap_item == HeapGet(h, this_ref)
    IN  IF this_ref < 0 \/ ~IsSome(heap_item)
        THEN Failed(th, cls, h, {"this_ref not found on heap"})
        ELSE IF Unwrap(heap_item).field_descriptor.tag \notin FieldTypeChars
        THEN Failed(th, cls, h, {"internal error: entered unreachable code"})
        ELSE IF Unwrap(heap_item).field_descriptor.tag # "L"
        THEN Failed(th, cls, h, {"not a class descriptor"})
        ELSE IF Unwrap(heap_item).field_descriptor.name \notin DOMAIN cls
        THEN Failed(th, cls, h, {"no class 1"})
        ELSE LET klass == cls[Unwrap(heap_item).field_descriptor.name]
             IN  IF ~IsSome(klass.java_clone)
                 THEN Failed(th, cls, h, {"called Option::unwrap on a None value"})
                 ELSE NativeReturn(th, cls, h, <<Unwrap(klass.java_clone)>>)

\* run_native_methods and the jvm_stack.pop() of Thread::run behind it: the
\* set of outcomes
\* the characters of a class name as a Rust String holds them, for the names
\* whose mirrors the programs hand to Class.initClassName and the names of
\* the records loaded with them
StringOf(name) ==
    CASE name = "NameOfSelf" -> <<78, 97, 109, 101, 79, 102, 83, 101, 108, 102>>
      [] name = "NameOfWorker" -> <<78, 97, 109, 101, 79, 102, 87, 111, 114, 107, 101, 114>>
      [] name = "Worker" -> <<87, 111, 114, 107, 101, 114>>
      [] name = "Iface" -> <<73, 102, 97, 99, 101>>
      [] name = "java/lang/Object" ->
             <<106, 97, 118, 97, 47, 108, 97, 110, 103, 47, 79, 98, 106, 101, 99, 116>>
      [] OTHER -> <<>>

\* Class.initClassName: classes.values() is searched in the order of the
\* HashMap for the record whose java_clone is this_ref, and the java_clone of
\* every record visited on the way is unwrapped; the outcomes over all orders
NativeInitClassName(th, cls, h) ==
    LET this_ref == CurrentFrame(th).local_variables[1]
        matches == {n \in DOMAIN cls : cls[n].java_clone = Some(this_ref)}
        unlinked == {n \in DOMAIN cls : ~IsSome(cls[n].java_clone)}
    IN  {Then(JavaStringFromString(cls, h, StringOf(cls[n].name)), LAMBDA s :
              IF ~s.ok THEN Failed(th, cls, s.heap, s.err)
              ELSE NativeReturn(th, cls, s.heap, <<s.ref>>)) : n \in matches}
        \cup (IF unlinked # {} \/ matches = {}
              THEN {Failed(th, cls, h, {"called Option::unwrap on a None value"})}
              ELSE {})

ExecNative(th, cls, h, resumed) ==
    LET fr == CurrentFrame(th)
        this_ref == fr.local_variables[1]
        void == Done([th EXCEPT !.jvm_stack = Front(@)], cls, h)
        unimplemented == Failed(th, cls, h, {"not implemented"})
    IN  CASE fr.class_name = "java/lang/Object" ->
                 CASE fr.method.name = "getClass" -> {NativeGetClass(th, cls, h)}
                   [] fr.method.name = "registerNatives" -> {void}
                   [] fr.method.name = "hashCode" -> {NativeReturn(th, cls, h, <<this_ref>>)}
                   [] OTHER -> {unimplemented}
          [] fr.class_name = "java/lang/Class" ->
                 CASE fr.method.name = "registerNatives" -> {void}
                   [] fr.method.name = "initClassName" -> NativeInitClassName(th, cls, h)
                   [] fr.method.name = "desiredAssertionStatus0" ->
                          {NativeReturn(th, cls, h, <<1>>)}
                   [] OTHER -> {unimplemented}
          [] fr.class_name = "java/lang/System" ->
                 CASE fr.method.name = "registerNatives" -> {void}
                   [] fr.method.name = "arraycopy" -> {NativeArraycopy(th, cls, h)}
                   [] fr.method.name \in {"identityHashCode", "initProperties"} ->
                          {NativeReturn(th, cls, h, <<this_ref>>)}
                   [] fr.method.name = "nanoTime" ->
                          {NativeReturn(th, cls, h, t) : t \in Timestamps}
                   [] OTHER -> {unimplemented}
          [] fr.class_name = "java/lang/Throwable" ->
                 CASE fr.method.name = "fillInStackTrace" ->
                          {NativeReturn(th, cls, h, <<this_ref>>)}
                   [] OTHER -> {unimplemented}
          [] OTHER -> {unimplemented}

\* dup
ExecDup(th, cls, h, resumed) ==
    LET fr == CurrentFrame(th)
    IN  IF fr.operand_stack = <<>>
        THEN Failed(th, cls, h,
                    {"operand stack is empty, so duplication is not possible :("})
        ELSE Done(SetFrame(th, Advance(Push(fr, Last(fr.operand_stack)), 1)), cls, h)

\* bastore, aastore, iastore: the cell is stored as it was popped
ExecArrayStore(th, cls, h, resumed) ==
    LET fr == CurrentFrame(th)
        n == Len(fr.operand_stack)
    IN  IF n < 3 THEN Failed(th, cls, h, {"no item on the operand_stack"})
        ELSE LET value == fr.operand_stack[n]
                 index == fr.operand_stack[n - 1]
                 arrayref == fr.operand_stack[n - 2]
             IN  IF arrayref < 0 \/ arrayref >= Len(h)
                 THEN Failed(th, cls, h, {"arrayref not on heap"})
                 ELSE IF index < 0 \/ index >= Len(h[arrayref + 1].data)
                 THEN Failed(th, cls, h, {"index out of bounds"})
                 ELSE Done(SetFrame(th,
                               Advance([fr EXCEPT !.operand_stack = SubSeq(@, 1, n - 3)],
                                       1)),
                           cls, [h EXCEPT ![arrayref + 1].data[index + 1] = value])

\* the head that getfield and putfield share behind the pops: the offset of
\* the field named by the constant in the class of the heap item objectref,
\* [ok, err, offset]
ObjectFieldOffset(cls, h, objectref, constant) ==
    LET heap_item == HeapGet(h, objectref)
        bad(msgs) == [ok |-> FALSE, err |-> msgs, offset |-> 0]
    IN  IF objectref < 0 \/ ~IsSome(heap_item)
        THEN bad({"object not found on heap!"})
        ELSE IF Unwrap(heap_item).field_descriptor.tag \notin FieldTypeChars
        THEN bad({"internal error: entered unreachable code"})
        ELSE IF Unwrap(heap_item).field_descriptor.tag # "L"
        THEN bad({"not a class instance"})
        ELSE IF Unwrap(heap_item).field_descriptor.name \notin DOMAIN cls
        THEN bad({"didnt find class in method_area"})
        ELSE IF \/ cls[Unwrap(heap_item).field_descriptor.name].kind # "instance"
                \/ constant.tag # "FieldRef"
        THEN bad({"called Option::unwrap on a None value"})
        ELSE LET o == FieldOffset(cls[Unwrap(heap_item).field_descriptor.name].fields,
                                  constant.class, constant.name, 1, 0)
             IN  IF o.ok THEN [ok |-> TRUE, err |-> {}, offset |-> o.offset]
                 ELSE bad({"couldnt calculate field offset"})

\* getfield: for a long or a double the second cell is read from the heap item
\* behind objectref, at the same offset
ExecGetfield(th, cls, h, resumed) ==
    LET fr == CurrentFrame(th)
        ix == IndexBytes(fr)
        c == PoolGet(cls, fr, ix.index, "expected ur mom 5")
        n == Len(fr.operand_stack)
    IN  IF ~ix.ok THEN Failed(th, cls, h, {"no bytes"})
        ELSE IF ~c.ok THEN Failed(th, cls, h, c.err)
        ELSE IF n < 1 THEN Failed(th, cls, h, {"value is not on the stack"})
        ELSE LET objectref == fr.operand_stack[n]
                 constant == Unwrap(c.constant)
                 popped == [fr EXCEPT !.operand_stack = Front(@)]
             IN  Then(ObjectFieldOffset(cls, h, objectref, constant), LAMBDA o :
                 IF ~o.ok THEN Failed(th, cls, h, o.err)
                 ELSE IF o.offset >= Len(h[objectref + 1].data)
                 THEN Failed(th, cls, h, {"index out of bounds"})
                 ELSE IF Unwrap(constant.descriptor) \in {"J", "D"}
                 THEN IF objectref + 1 >= Len(h)
                      THEN Failed(th, cls, h, {"item not on heap"})
                      ELSE IF o.offset >= Len(h[objectref + 2].data)
                      THEN Failed(th, cls, h, {"index out of bounds"})
                      ELSE Done(SetFrame(th, Advance(
                                    Push(Push(popped, h[objectref + 1].data[o.offset + 1]),
                                         h[objectref + 2].data[o.offset + 1]), 3)),
                                cls, h)
                 ELSE Done(SetFrame(th, Advance(
                               Push(popped, h[objectref + 1].data[o.offset + 1]), 3)),
                           cls, h))

\* putfield: one value cell whatever the type of the field
ExecPutfield(th, cls, h, resumed) ==
    LET fr == CurrentFrame(th)
        ix == IndexBytes(fr)
        c == PoolGet(cls, fr, ix.index, "expected ur mom 6")
        n == Len(fr.operand_stack)
    IN  IF ~ix.ok THEN Failed(th, cls, h, {"no bytes"})
        ELSE IF ~c.ok THEN Failed(th, cls, h, c.err)
        ELSE IF n < 2 THEN Failed(th, cls, h, {"value is not on the stack"})
        ELSE LET value == fr.operand_stack[n]
                 objectref == fr.operand_stack[n - 1]
                 constant == Unwrap(c.constant)
             IN  Then(ObjectFieldOffset(cls, h, objectref, constant), LAMBDA o :
                 IF ~o.ok THEN Failed(th, cls, h, o.err)
                 ELSE IF o.offset >= Len(h[objectref + 1].data)
                 THEN Failed(th, cls, h, {"index out of bounds"})
                 ELSE Done(SetFrame(th,
                               Advance([fr EXCEPT !.operand_stack = SubSeq(@, 1, n - 2)],
                                       3)),
                           cls, [h EXCEPT ![objectref + 1].data[o.offset + 1] = value]))

\* lstore and lstore_<n>: value_part2 is popped first, then value_part1
ExecLstore(th, cls, h, resumed) ==
    LET fr == CurrentFrame(th)
        instruction == Unwrap(ByteAt(fr, fr.instruction_counter))
        wide == instruction = lstore
        index == IF wide THEN ByteAt(fr, fr.instruction_counter + 1)
                 ELSE Some(instruction - lstore_0)
        n == Len(fr.operand_stack)
    IN  IF ~IsSome(index) THEN Failed(th, cls, h, {"no bytes"})
        ELSE IF n < 2 THEN Failed(th, cls, h, {"no item on the operand_stack"})
        ELSE IF Unwrap(index) + 1 >= Len(fr.local_variables)
        THEN Failed(th, cls, h, {"index out of bounds"})
        ELSE Done(SetFrame(th, Advance(
                      [fr EXCEPT !.operand_stack = SubSeq(@, 1, n - 2),
                                 !.local_variables[Unwrap(index) + 1] =
                                     fr.operand_stack[n - 1],
                                 !.local_variables[Unwrap(index) + 2] =
                                     fr.operand_stack[n]],
                      IF wide THEN 2 ELSE 1)), cls, h)

\* lload and lload_<n>: value_part1 and value_part2 are both read from
\* local_variables[index]
ExecLload(th, cls, h, resumed) ==
    LET fr == CurrentFrame(th)
        instruction == Unwrap(ByteAt(fr, fr.instruction_counter))
        wide == instruction = lload
        index == IF wide THEN ByteAt(fr, fr.instruction_counter + 1)
                 ELSE Some(instruction - lload_0)
    IN  IF ~IsSome(index) THEN Failed(th, cls, h, {"no bytes"})
        ELSE IF Unwrap(index) >= Len(fr.local_variables)
        THEN Failed(th, cls, h, {"index out of bounds"})
        ELSE LET value_part1 == fr.local_variables[Unwrap(index) + 1]
                 value_part2 == fr.local_variables[Unwrap(index) + 1]
             IN  Done(SetFrame(th, Advance(Push(Push(fr, value_part1), value_part2),
                                           IF wide THEN 2 ELSE 1)), cls, h)

\* aconst_null
ExecAconstNull(th, cls, h, resumed) ==
    Done(SetFrame(th, Advance(Push(CurrentFrame(th), 0), 1)), cls, h)

\* newarray: the type byte is read and not used, the item is stored as "[B"; a
\* count with the top bit set is a length of at least 2^31 cells
ExecNewarray(th, cls, h, resumed) ==
    LET fr == CurrentFrame(th)
        n == Len(fr.operand_stack)
    IN  IF ~IsSome(ByteAt(fr, fr.instruction_counter + 1))
        THEN Failed(th, cls, h, {"no bytes"})
        ELSE IF n < 1 THEN Failed(th, cls, h, {"no item on the operand_stack"})
        ELSE IF fr.operand_stack[n] < 0
        THEN Failed(th, cls, h, {"memory allocation failed"})
        ELSE Then(HeapStore(h, ByteArrayDescriptor, Zeros(fr.operand_stack[n])),
                  LAMBDA stored :
             Done(SetFrame(th, Advance(Push([fr EXCEPT !.operand_stack = Front(@)],
                                            stored.ref), 2)),
                  cls, stored.heap))

\* aaload, baload, caload: the reference and the index are cast to usize, so a
\* negative one lies behind every heap and every array
ExecArrayLoad(th, cls, h, resumed) ==
    LET fr == CurrentFrame(th)
        n == Len(fr.operand_stack)
    IN  IF n < 1 THEN Failed(th, cls, h, {"no item on the operand_stack 1"})
        ELSE IF n < 2 THEN Failed(th, cls, h, {"no item on the operand_stack 2"})
        ELSE LET index == fr.operand_stack[n]
                 arrayref == fr.operand_stack[n - 1]
             IN  IF arrayref < 0 \/ arrayref >= Len(h)
                 THEN Failed(th, cls, h, {"arrayref not on heap"})
                 ELSE IF index < 0 \/ index >= Len(h[arrayref + 1].data)
                 THEN Failed(th, cls, h, {"arrays not that big"})
                 ELSE Done(SetFrame(th,
                               Advance([fr EXCEPT !.operand_stack =
                                           Append(SubSeq(@, 1, n - 2),
                                                  h[arrayref + 1].data[index + 1])], 1)),
                           cls, h)

\* ldc, ldc_w
ExecLdc(th, cls, h, resumed) ==
    LET fr0 == CurrentFrame(th)
        instruction == Unwrap(ByteAt(fr0, fr0.instruction_counter))
        b1 == ByteAt(fr0, fr0.instruction_counter + 1)
        b2 == ByteAt(fr0, fr0.instruction_counter + 2)
    IN  IF ~IsSome(b1) \/ (instruction = ldc_w /\ ~IsSome(b2))
        THEN Failed(th, cls, h, {"no bytes"})
        ELSE LET index == IF instruction = ldc THEN Unwrap(b1)
                          ELSE Unwrap(b1) * 256 + Unwrap(b2)
                 fr == Advance(fr0, IF instruction = ldc THEN 1 ELSE 2)
                 c == PoolGet(cls, fr, index, "expected ur mom 1")
             IN  IF ~c.ok THEN Failed(th, cls, h, c.err)
                 ELSE LET loadable_constant == Unwrap(c.constant)
                      IN  CASE loadable_constant.tag = "String" ->
                                   Then(JavaStringFromString(cls, h, loadable_constant.text),
                                        LAMBDA s :
                                        IF ~s.ok THEN Failed(th, cls, s.heap, s.err)
                                        ELSE Done(SetFrame(th, Advance(Push(fr, s.ref), 1)),
                                                  cls, s.heap))
                            [] loadable_constant.tag \in {"Integer", "Float"} ->
                                   Done(SetFrame(th,
                                            Advance(Push(fr, loadable_constant.value), 1)),
                                        cls, h)
                            [] loadable_constant.tag = "Class" ->
                                   LdcClass(th, fr, cls, h, loadable_constant.class, resumed)
                            [] OTHER ->
                                   Failed(th, cls, h,
                                          {"internal error: entered unreachable code"})

\* pop
ExecPop(th, cls, h, resumed) ==
    LET fr == CurrentFrame(th)
    IN  IF fr.operand_stack = <<>> THEN Failed(th, cls, h, {"no item on the operand_stack"})
        ELSE Done(SetFrame(th, Advance([fr EXCEPT !.operand_stack = Front(@)], 1)), cls, h)

\* i32 `/` and `%` of Rust: the quotient is truncated toward zero
TruncDivPos(a, b) ==
    IF a < 0 /\ a % b # 0 THEN (a \div b) + 1 ELSE a \div b
TruncDiv(a, b) ==
    IF b > 0 THEN TruncDivPos(a, b)
    ELSE IF b = MinI32 THEN (IF a = MinI32 THEN 1 ELSE 0)
    ELSE -TruncDivPos(a, -b)
TruncRem(a, b) == a - b * TruncDiv(a, b)

\* idiv
ExecIdiv(th, cls, h, resumed) ==
    LET fr == CurrentFrame(th)
        n == Len(fr.operand_stack)
    IN  IF n < 2 THEN Failed(th, cls, h, {"no item on the operand_stack"})
        ELSE LET value2 == fr.operand_stack[n]
                 value1 == fr.operand_stack[n - 1]
             IN  IF value2 = 0 THEN Failed(th, cls, h, {"attempt to divide by zero"})
                 ELSE IF value1 = MinI32 /\ value2 = -1
                 THEN Failed(th, cls, h, {"attempt to divide with overflow"})
                 ELSE Done(SetFrame(th,
                               Advance([fr EXCEPT !.operand_stack =
                                           Append(SubSeq(@, 1, n - 2),
                                                  TruncDiv(value1, value2))], 1)),
                           cls, h)

\* irem
ExecIrem(th, cls, h, resumed) ==
    LET fr == CurrentFrame(th)
        n == Len(fr.operand_stack)
    IN  IF n < 2 THEN Failed(th, cls, h, {"no item on the operand_stack"})
        ELSE LET value2 == fr.operand_stack[n]
                 value1 == fr.operand_stack[n - 1]
             IN  IF value2 = 0
                 THEN Failed(th, cls, h,
                             {"attempt to calculate the remainder with a divisor of zero"})
                 ELSE IF value1 = MinI32 /\ value2 = -1
                 THEN Failed(th, cls, h,
                             {"attempt to calculate the remainder with overflow"})
                 ELSE Done(SetFrame(th,
                               Advance([fr EXCEPT !.operand_stack =
                                           Append(SubSeq(@, 1, n - 2),
                                                  TruncRem(value1, value2))], 1)),
                           cls, h)

\* value.to_be_bytes(): the n bits of an integer in two's complement, the
\* lowest first
RECURSIVE Bits(_, _)
Bits(c, n) == IF n = 0 THEN <<>> ELSE <<c % 2>> \o Bits(c \div 2, n - 1)

\* read_u32 of 32 bits: the cell that holds them
RECURSIVE Word(_)
Word(bits) == IF Len(bits) = 1 THEN -bits[1] ELSE bits[1] + 2 * Word(Tail(bits))

\* ((part1 << 16) | part2) of two cells widened to u64, read as i64
Long16(part1, part2) ==
    LET p1 == Bits(part1, 32)
        p2 == Bits(part2, 32)
    IN  [k \in 1..64 |->
            IF k <= 16 THEN p2[k]
            ELSE IF k <= 32 THEN (IF p1[k - 16] + p2[k] > 0 THEN 1 ELSE 0)
            ELSE IF k <= 48 THEN p1[k - 16]
            ELSE 0]

\* the two read_u32 of result.to_be_bytes(), pushed in that order
PushLong(fr, x) == Push(Push(fr, Word(SubSeq(x, 33, 64))), Word(SubSeq(x, 1, 32)))

\* x << s and x >> s for 0 <= s < Len(x); fill is what enters at the top
ShiftLeft(x, s) == [k \in 1..Len(x) |-> IF k - s >= 1 THEN x[k - s] ELSE 0]
ShiftRight(x, s, fill) == [k \in 1..Len(x) |-> IF k + s <= Len(x) THEN x[k + s] ELSE fill]

\* ishl, lshl, ishr, iushr, lushr: the outcomes the build can produce.  The
\* operators << and >> of ishl, lshl and ishr panic on a count outside the
\* width where overflow checks are compiled in and mask it where they are
\* not; wrapping_shr of iushr and lushr always masks it.
ExecShift(th, cls, h, resumed) ==
    LET fr == CurrentFrame(th)
        instruction == Unwrap(ByteAt(fr, fr.instruction_counter))
        n == Len(fr.operand_stack)
        long == instruction \in {lshl, lushr}
        cells == IF long THEN 3 ELSE 2
        width == IF long THEN 64 ELSE 32
    IN  IF n < cells THEN {Failed(th, cls, h, {"no item on the operand_stack"})}
        ELSE LET value2 == fr.operand_stack[n]
                 value1 == IF long
                           THEN Long16(fr.operand_stack[n - 2], fr.operand_stack[n - 1])
                           ELSE Bits(fr.operand_stack[n - 1], 32)
                 result == CASE instruction \in {ishl, lshl} ->
                                    ShiftLeft(value1, value2 % width)
                             [] instruction = iushr ->
                                    ShiftRight(value1, value2 % width, 0)
                             [] OTHER ->
                                    ShiftRight(value1, value2 % width, value1[width])
                 popped == [fr EXCEPT !.operand_stack = SubSeq(@, 1, n - cells)]
                 pushed == IF long THEN PushLong(popped, result)
                           ELSE Push(popped, Word(result))
             IN  {Done(SetFrame(th, Advance(pushed, 1)), cls, h)}
                 \cup IF instruction \in {ishl, lshl} /\ value2 \notin 0..(width - 1)
                      THEN {Failed(th, cls, h, {"attempt to shift left with overflow"})}
                      ELSE IF instruction = ishr /\ value2 \notin 0..(width - 1)
                      THEN {Failed(th, cls, h, {"attempt to shift right with overflow"})}
                      ELSE {}

\* x + y + carry in Len(x) bits, wrapping
RECURSIVE AddBits(_, _, _)
AddBits(x, y, carry) ==
    IF x = <<>> THEN <<>>
    ELSE <<(x[1] + y[1] + carry) % 2>>
         \o AddBits(Tail(x), Tail(y), (x[1] + y[1] + carry) \div 2)

\* the bytes of x, the lowest first
Limbs(x) ==
    [i \in 1..(Len(x) \div 8) |->
        x[8 * i - 7] + 2 * x[8 * i - 6] + 4 * x[8 * i - 5] + 8 * x[8 * i - 4]
        + 16 * x[8 * i - 3] + 32 * x[8 * i - 2] + 64 * x[8 * i - 1] + 128 * x[8 * i]]

\* x * y in Len(x) bits, wrapping: byte k of the product from the products
\* of the bytes i of x and k + 1 - i of y and the carry of the bytes below
RECURSIVE MulLimbs(_, _, _, _)
MulLimbs(xl, yl, k, carry) ==
    LET RECURSIVE Column(_)
        Column(i) == IF i > k THEN carry ELSE xl[i] * yl[k + 1 - i] + Column(i + 1)
    IN  IF k > Len(xl) THEN <<>>
        ELSE Bits(Column(1) % 256, 8) \o MulLimbs(xl, yl, k + 1, Column(1) \div 256)
MulBits(x, y) == MulLimbs(Limbs(x), Limbs(y), 1, 0)

\* the i64 x extended to 128 bits
Extend(x) == x \o [k \in 1..64 |-> x[64]]

\* the order of the i64 x and y, looked at from bit k down: 1, 0 or -1
RECURSIVE Compare(_, _, _)
Compare(x, y, k) ==
    IF k = 0 THEN 0
    ELSE IF x[k] = y[k] THEN Compare(x, y, k - 1)
    ELSE IF (x[k] > y[k]) = (k < Len(x)) THEN 1 ELSE -1

\* ladd, lmul, land, lxor, lcmp: the outcomes the build can produce.  The
\* operator * of lmul panics on an i64 overflow where overflow checks are
\* compiled in and wraps where they are not; the sum of ladd cannot
\* overflow, its operands having 48 bits.
ExecLongBinary(th, cls, h, resumed) ==
    LET fr == CurrentFrame(th)
        instruction == Unwrap(ByteAt(fr, fr.instruction_counter))
        n == Len(fr.operand_stack)
    IN  IF n < 4 THEN {Failed(th, cls, h, {"no item on the operand_stack"})}
        ELSE LET value2 == Long16(fr.operand_stack[n - 1], fr.operand_stack[n])
                 value1 == Long16(fr.operand_stack[n - 3], fr.operand_stack[n - 2])
                 popped == [fr EXCEPT !.operand_stack = SubSeq(@, 1, n - 4)]
             IN  CASE instruction = ladd ->
                          {Done(SetFrame(th, Advance(PushLong(popped,
                                    AddBits(value1, value2, 0)), 1)), cls, h)}
                   [] instruction = lmul ->
                          Then(MulBits(Extend(value1), Extend(value2)), LAMBDA product :
                          {Done(SetFrame(th, Advance(PushLong(popped,
                                    SubSeq(product, 1, 64)), 1)), cls, h)}
                          \cup IF product # Extend(SubSeq(product, 1, 64))
                               THEN {Failed(th, cls, h, {"attempt to multiply with overflow"})}
                               ELSE {})
                   [] instruction = land ->
                          {Done(SetFrame(th, Advance(PushLong(popped,
                                    [k \in 1..64 |-> value1[k] * value2[k]]), 1)), cls, h)}
                   [] instruction = lxor ->
                          {Done(SetFrame(th, Advance(PushLong(popped,
                                    [k \in 1..64 |-> (value1[k] + value2[k]) % 2]), 1)),
                                cls, h)}
                   [] instruction = lcmp ->
                          {Done(SetFrame(th, Advance(Push(popped,
                                    Compare(value1, value2, 64)), 1)), cls, h)}

\* i2l, l2i, i2b
ExecConvert(th, cls, h, resumed) ==
    LET fr == CurrentFrame(th)
        instruction == Unwrap(ByteAt(fr, fr.instruction_counter))
        n == Len(fr.operand_stack)
        cells == IF instruction = l2i THEN 2 ELSE 1
    IN  IF n < cells THEN Failed(th, cls, h, {"no item on the operand_stack"})
        ELSE LET popped == [fr EXCEPT !.operand_stack = SubSeq(@, 1, n - cells)]
                 pushed ==
                     CASE instruction = i2l ->
                              \* read_i32 as i64
                              PushLong(popped, Bits(fr.operand_stack[n], 64))
                       [] instruction = l2i ->
                              \* ((part1 << 32) + part2) as i32
                              Push(popped,
                                   Word(SubSeq(Bits(fr.operand_stack[n], 32)
                                                 \o Bits(fr.operand_stack[n - 1], 32),
                                               1, 32)))
                       [] instruction = i2b ->
                              \* read_i32 as u8 as i32
                              Push(popped,
                                   Word(SubSeq(Bits(fr.operand_stack[n], 32), 1, 8)
                                          \o Bits(0, 24)))
             IN  Done(SetFrame(th, Advance(pushed, 1)), cls, h)

\* ireturn, areturn, and lreturn, dreturn with the two cells of their value
ExecIreturn(th, cls, h, resumed) ==
    LET fr == CurrentFrame(th)
        n == Len(th.jvm_stack)
        instruction == Unwrap(ByteAt(fr, fr.instruction_counter))
        cells == IF instruction \in {lreturn, dreturn} THEN 2 ELSE 1
        m == Len(fr.operand_stack)
    IN  IF m < cells
        THEN Failed(th, cls, h, {IF instruction = dreturn
                                 THEN "no item on the operand_stack"
                                 ELSE "no return value on operand stack"})
        ELSE IF n = 1
        THEN Failed(th, cls, h, {"attempt to subtract with overflow", "no invoker"})
        ELSE Done([th EXCEPT !.jvm_stack =
                       Front([@ EXCEPT ![n - 1].operand_stack =
                                 @ \o SubSeq(fr.operand_stack, m - cells + 1, m)])],
                  cls, h)

\* return
ExecReturn(th, cls, h, resumed) ==
    IF Len(th.jvm_stack) = 1
    THEN [Done(th, cls, h) EXCEPT !.break = TRUE]
    ELSE Done([th EXCEPT !.jvm_stack = Front(@)], cls, h)

\* InstanceKlass::static_field_offset_with_strings: [ok, offset]
RECURSIVE StaticFieldOffset(_, _, _, _, _)
StaticFieldOffset(static_fields, searched_class_name, searched_field_name, i, offset) ==
    IF i > Len(static_fields) THEN [ok |-> FALSE, offset |-> 0]
    ELSE IF \/ searched_class_name # static_fields[i].class_name
            \/ searched_field_name # static_fields[i].field_name
    THEN StaticFieldOffset(static_fields, searched_class_name, searched_field_name,
                           i + 1, offset + static_fields[i].field_width)
    ELSE [ok |-> TRUE, offset |-> offset]

\* getstatic
ExecGetstatic(th, cls, h, resumed) ==
    LET fr == CurrentFrame(th)
        ix == IndexBytes(fr)
        c == PoolGet(cls, fr, ix.index, "expected ur mom 3")
    IN  IF ~ix.ok THEN Failed(th, cls, h, {"no bytes"})
        ELSE IF ~c.ok THEN Failed(th, cls, h, c.err)
        ELSE IF Unwrap(c.constant).tag # "FieldRef"
        THEN Failed(th, cls, h, {"not a field_ref 1"})
        ELSE LET field_ref == Unwrap(c.constant)
             IN  Then(Ensured(cls, h, field_ref.class, resumed), LAMBDA g :
                 IF ~g.ok THEN Failed(th, g.classes, g.heap, g.err)
                 ELSE IF IsSome(g.clinit) THEN Suspended(th, g)
                 ELSE IF g.classes[field_ref.class].kind # "instance"
                 THEN Failed(th, g.classes, g.heap,
                             {"called Option::unwrap on a None value"})
                 ELSE LET class == g.classes[field_ref.class]
                          o == StaticFieldOffset(class.static_fields, field_ref.class,
                                                 field_ref.name, 1, 0)
                      IN  IF ~o.ok
                          THEN Failed(th, g.classes, g.heap,
                                      {"couldnt calculate static field offset"})
                          ELSE IF o.offset >= Len(class.static_field_values)
                          THEN Failed(th, g.classes, g.heap,
                                      {"no value in static_field_values"})
                          ELSE Done(SetFrame(th,
                                        Advance(Push(fr,
                                                     class.static_field_values[o.offset + 1]),
                                                3)),
                                    g.classes, g.heap))

\* putstatic
ExecPutstatic(th, cls, h, resumed) ==
    LET fr == CurrentFrame(th)
        ix == IndexBytes(fr)
        c == PoolGet(cls, fr, ix.index, "expected ur mom 4")
    IN  IF ~ix.ok THEN Failed(th, cls, h, {"no bytes"})
        ELSE IF fr.operand_stack = <<>> THEN Failed(th, cls, h, {"no popable value here"})
        ELSE IF ~c.ok THEN Failed(th, cls, h, c.err)
        ELSE IF Unwrap(c.constant).tag # "FieldRef"
        THEN Failed(th, cls, h, {"not a field_ref 2"})
        ELSE LET field_ref == Unwrap(c.constant)
                 value == Last(fr.operand_stack)
             IN  Then(Ensured(cls, h, field_ref.class, resumed), LAMBDA g :
                 IF ~g.ok THEN Failed(th, g.classes, g.heap, g.err)
                 ELSE IF IsSome(g.clinit) THEN Suspended(th, g)
                 ELSE IF g.classes[field_ref.class].kind # "instance"
                 THEN Failed(th, g.classes, g.heap,
                             {"called Option::unwrap on a None value"})
                 ELSE LET class == g.classes[field_ref.class]
                          o == StaticFieldOffset(class.static_fields, field_ref.class,
                                                 field_ref.name, 1, 0)
                      IN  IF ~o.ok
                          THEN Failed(th, g.classes, g.heap,
                                      {"couldnt calculate static field offset"})
                          ELSE IF o.offset >= Len(class.static_field_values)
                          THEN Failed(th, g.classes, g.heap,
                                      {"index out of bounds"})
                          ELSE Done(SetFrame(th,
                                        Advance([fr EXCEPT !.operand_stack = Front(@)], 3)),
                                    [g.classes EXCEPT
                                       ![field_ref.class].static_field_values[o.offset + 1] =
                                           value],
                                    g.heap))

\* invokestatic
ExecInvokestatic(th, cls, h, resumed) ==
    LET fr == CurrentFrame(th)
        ix == IndexBytes(fr)
        c == PoolGet(cls, fr, ix.index, "expected ur mom")
    IN  IF ~ix.ok THEN Failed(th, cls, h, {"no bytes"})
        ELSE IF ~c.ok THEN Failed(th, cls, h, c.err)
        ELSE IF Unwrap(c.constant).tag # "MethodRef"
        THEN Failed(th, cls, h, {"not a field ref"})
        ELSE LET method_ref == Unwrap(c.constant)
                 type_descriptor == Unwrap(method_ref.descriptor)
                 k == Len(type_descriptor.parameter_descriptors)
                 n == Len(fr.operand_stack)
             IN  Then(Ensured(cls, h, method_ref.class, resumed), LAMBDA g :
                 IF ~g.ok THEN Failed(th, g.classes, g.heap, g.err)
                 ELSE IF IsSome(g.clinit) THEN Suspended(th, g)
                 ELSE IF n < k
                 THEN Failed(th, g.classes, g.heap, {"nargs is not on the stack"})
                 ELSE LET nargs == SubSeq(fr.operand_stack, n - k + 1, n)
                          f == FrameNew(g.classes, method_ref.class, method_ref.name,
                                        type_descriptor)
                      IN  IF ~f.ok THEN Failed(th, g.classes, g.heap, f.err)
                          ELSE LET new_frame ==
                                       [Unwrap(f.frame) EXCEPT !.local_variables =
                                           [i \in 1..LocalsSize |->
                                               IF i <= k THEN nargs[i] ELSE @[i]]]
                                   caller ==
                                       Advance([fr EXCEPT !.operand_stack =
                                                   SubSeq(@, 1, n - k)], 3)
                               IN  Done([SetFrame(th, caller) EXCEPT
                                            !.jvm_stack = Append(@, new_frame)],
                                        g.classes, g.heap))

\* the class invokevirtual hands to Frame::new: the static class of the
\* method reference
ReceiverClassStatic(heap_item, method_ref) == method_ref.class
\* the class invokevirtual hands to Frame::new: the class instance named by
\* the heap item's field_descriptor
ReceiverClass(heap_item, method_ref) == heap_item.field_descriptor.name

\* invokevirtual
ExecInvokevirtual(th, cls, h, resumed) ==
    LET fr == CurrentFrame(th)
        ix == IndexBytes(fr)
        c == PoolGet(cls, fr, ix.index, "expected ur mom")
    IN  IF ~ix.ok THEN Failed(th, cls, h, {"no bytes"})
        ELSE IF ~c.ok THEN Failed(th, cls, h, c.err)
        ELSE IF Unwrap(c.constant).tag # "MethodRef"
        THEN Failed(th, cls, h, {"not a field ref"})
        ELSE LET method_ref == Unwrap(c.constant)
                 type_descriptor == Unwrap(method_ref.descriptor)
                 k == Len(type_descriptor.parameter_descriptors)
                 n == Len(fr.operand_stack)
             IN  Then(Ensured(cls, h, method_ref.class, resumed), LAMBDA g :
                 IF ~g.ok THEN Failed(th, g.classes, g.heap, g.err)
                 ELSE IF IsSome(g.clinit) THEN Suspended(th, g)
                 ELSE IF n < k
                 THEN Failed(th, g.classes, g.heap, {"nargs is not on the stack"})
                 ELSE IF n < k + 1
                 THEN Failed(th, g.classes, g.heap, {"object_ref is not on the stack"})
                 ELSE LET nargs == SubSeq(fr.operand_stack, n - k + 1, n)
                          object_ref == fr.operand_stack[n - k]
                          heap_item == HeapGet(g.heap, object_ref)
                      IN  IF ~IsSome(heap_item)
                          THEN Failed(th, g.classes, g.heap, {"this_ref not found on heap"})
                          ELSE IF Unwrap(heap_item).field_descriptor.tag \notin FieldTypeChars
                          THEN Failed(th, g.classes, g.heap,
                                      {"internal error: entered unreachable code"})
                          ELSE IF Unwrap(heap_item).field_descriptor.tag # "L"
                          THEN Failed(th, g.classes, g.heap,
                                      {"called Option::unwrap on a None value"})
                          ELSE Then(FrameNew(g.classes,
                                             ReceiverClass(Unwrap(heap_item), method_ref),
                                             method_ref.name, type_descriptor), LAMBDA f :
                               IF ~f.ok THEN Failed(th, g.classes, g.heap, f.err)
                               ELSE LET new_frame ==
                                            [Unwrap(f.frame) EXCEPT !.local_variables =
                                                [i \in 1..LocalsSize |->
                                                    IF i = 1 THEN object_ref
                                                    ELSE IF i <= k + 1 THEN nargs[i - 1]
                                                    ELSE @[i]]]
                                        caller ==
                                            Advance([fr EXCEPT !.operand_stack =
                                                        SubSeq(@, 1, n - k - 1)], 3)
                                    IN  Done([SetFrame(th, caller) EXCEPT
                                                 !.jvm_stack = Append(@, new_frame)],
                                             g.classes, g.heap)))

\* new
ExecNew(th, cls, h, resumed) ==
    LET fr == CurrentFrame(th)
        ix == IndexBytes(fr)
        c == PoolGet(cls, fr, ix.index, "expected ur mom")
    IN  IF ~ix.ok THEN Failed(th, cls, h, {"no bytes"})
        ELSE IF ~c.ok THEN Failed(th, cls, h, c.err)
        ELSE IF Unwrap(c.constant).tag # "Class"
        THEN Failed(th, cls, h, {"ClassNotFound :("})
        ELSE LET class == Unwrap(c.constant)
             IN  Then(Ensured(cls, h, class.class, resumed), LAMBDA g :
                 IF ~g.ok THEN Failed(th, g.classes, g.heap, g.err)
                 ELSE IF IsSome(g.clinit) THEN Suspended(th, g)
                 ELSE IF class.class \notin DOMAIN g.classes
                 THEN Failed(th, g.classes, g.heap, {"class not found in method area 3 :("})
                 ELSE IF g.classes[class.class].kind # "instance"
                 THEN Failed(th, g.classes, g.heap,
                             {"called Result::unwrap on an Err value"})
                 ELSE LET st == AllocateKlass(g.heap, g.classes[class.class])
                      IN  Done(SetFrame(th, Advance(Push(fr, st.ref), 3)),
                               g.classes, st.heap))

\* athrow
ExecAthrow(th, cls, h, resumed) ==
    LET fr == CurrentFrame(th)
    IN  IF fr.operand_stack = <<>> THEN Failed(th, cls, h, {"nothing to pop here"})
        ELSE HandleException(SetFrame(th, [fr EXCEPT !.operand_stack = Front(@)]),
                             cls, h, Last(fr.operand_stack))

(***************************************************************************)
(* deserialize.rs: the decoder of a class file.  The Cursor is the buffer  *)
(* and the number pos of bytes already read.                               *)
(***************************************************************************)
\* read_u8, read_u16, read_u32 (n = 1, 2, 4 bytes, big-endian): [ok, value,
\* pos]; a u32 is held as the i32 with the same bits
ReadU(buf, pos, n) ==
    IF pos + n > Len(buf) THEN [ok |-> FALSE, value |-> 0, pos |-> pos]
    ELSE [ok |-> TRUE,
          value |-> CASE n = 1 -> buf[pos + 1]
                      [] n = 2 -> buf[pos + 1] * 256 + buf[pos + 2]
                      [] n = 4 -> Word(Bits(buf[pos + 4], 8) \o Bits(buf[pos + 3], 8)
                                         \o Bits(buf[pos + 2], 8) \o Bits(buf[pos + 1], 8)),
          pos |-> pos + n]

\* rdr.take(length).read_to_end(&mut buf): the bytes that are there, at most
\* length of them (a length of 2^31 or more is held as a negative number)
Take(buf, pos, length) ==
    LET n == IF length < 0 \/ length > Len(buf) - pos THEN Len(buf) - pos ELSE length
    IN  [bytes |-> SubSeq(buf, pos + 1, pos + n), pos |-> pos + n]

\* the Err of a read behind the end of the buffer
UnexpectedEof == {"failed to fill whole buffer"}

\* the widths of the fields that follow the tag of a constant
ConstantFields ==
    [t \in {3, 7, 8, 9, 10, 12, 15, 18} |->
        CASE t = 3 -> <<4>>
          [] t \in {7, 8} -> <<2>>
          [] t \in {9, 10, 12, 18} -> <<2, 2>>
          [] t = 15 -> <<1, 2>>]

\* the reads of consecutive fields of the given widths: [ok, values, pos]
RECURSIVE ReadFields(_, _, _)
ReadFields(buf, pos, widths) ==
    IF widths = <<>> THEN [ok |-> TRUE, values |-> <<>>, pos |-> pos]
    ELSE Then(ReadU(buf, pos, Head(widths)), LAMBDA r :
         IF ~r.ok THEN [ok |-> FALSE, values |-> <<>>, pos |-> pos]
         ELSE Then(ReadFields(buf, r.pos, Tail(widths)), LAMBDA rest :
              [rest EXCEPT !.values = <<r.value>> \o @]))

\* deserialize_constant_pool, one entry: [ok, err, info, pos]
DeserializeConstantPool(buf, pos) ==
    Then(ReadU(buf, pos, 1), LAMBDA tag :
    IF ~tag.ok THEN [ok |-> FALSE, err |-> UnexpectedEof, info |-> <<>>, pos |-> pos]
    ELSE IF tag.value = 1
    THEN Then(ReadU(buf, tag.pos, 2), LAMBDA length :
         IF ~length.ok
         THEN [ok |-> FALSE, err |-> UnexpectedEof, info |-> <<>>, pos |-> pos]
         ELSE Then(Take(buf, length.pos, length.value), LAMBDA taken :
              [ok |-> TRUE, err |-> {},
               info |-> [tag |-> 1, length |-> length.value, bytes |-> taken.bytes],
               pos |-> taken.pos]))
    ELSE IF tag.value \in DOMAIN ConstantFields
    THEN Then(ReadFields(buf, tag.pos, ConstantFields[tag.value]), LAMBDA fields :
         IF ~fields.ok
         THEN [ok |-> FALSE, err |-> UnexpectedEof, info |-> <<>>, pos |-> pos]
         ELSE [ok |-> TRUE, err |-> {},
               info |-> [tag |-> tag.value, values |-> fields.values],
               pos |-> fields.pos])
    ELSE [ok |-> FALSE, err |-> {"not yet implemented"}, info |-> <<>>, pos |-> pos])

\* the `for _ in 0..constant_pool_count - 1` of deserialize_class_file, with
\* count entries still to read: [ok, err, items, pos]
RECURSIVE ConstantPool(_, _, _)
ConstantPool(buf, pos, count) ==
    IF count = 0 THEN [ok |-> TRUE, err |-> {}, items |-> <<>>, pos |-> pos]
    ELSE Then(DeserializeConstantPool(buf, pos), LAMBDA c :
         IF ~c.ok THEN [ok |-> FALSE, err |-> c.err, items |-> <<>>, pos |-> pos]
         ELSE Then(ConstantPool(buf, c.pos, count - 1), LAMBDA rest :
              [rest EXCEPT !.items = <<c.info>> \o @]))

\* deserialize_attributes: [ok, err, items, pos]
RECURSIVE DeserializeAttributes(_, _, _)
DeserializeAttributes(buf, pos, attributes_count) ==
    IF attributes_count = 0 THEN [ok |-> TRUE, err |-> {}, items |-> <<>>, pos |-> pos]
    ELSE Then(ReadFields(buf, pos, <<2, 4>>), LAMBDA head :
         IF ~head.ok
         THEN [ok |-> FALSE, err |-> UnexpectedEof, items |-> <<>>, pos |-> pos]
         ELSE Then(Take(buf, head.pos, head.values[2]), LAMBDA taken :
              Then(DeserializeAttributes(buf, taken.pos, attributes_count - 1),
                   LAMBDA rest :
                   [rest EXCEPT !.items =
                        <<[attribute_name_index |-> head.values[1],
                           attribute_length |-> head.values[2],
                           info |-> taken.bytes]>> \o @])))

\* the `for _ in 0..fields_count` and `for _ in 0..methods_count` of
\* deserialize_class_file: [ok, err, items, pos]
RECURSIVE Members(_, _, _)
Members(buf, pos, count) ==
    IF count = 0 THEN [ok |-> TRUE, err |-> {}, items |-> <<>>, pos |-> pos]
    ELSE Then(ReadFields(buf, pos, <<2, 2, 2, 2>>), LAMBDA head :
         IF ~head.ok
         THEN [ok |-> FALSE, err |-> UnexpectedEof, items |-> <<>>, pos |-> pos]
         ELSE Then(DeserializeAttributes(buf, head.pos, head.values[4]), LAMBDA attrs :
              IF ~attrs.ok THEN attrs
              ELSE Then(Members(buf, attrs.pos, count - 1), LAMBDA rest :
                   [rest EXCEPT !.items =
                        <<[access_flags |-> head.values[1],
                           name_index |-> head.values[2],
                           descriptor_index |-> head.values[3],
                           attributes_count |-> head.values[4],
                           attributes |-> attrs.items]>> \o @])))

\* 0xcafebabe and the greatest major_version that is accepted
Magic == -889275714
MaxMajorVersion == 55

\* deserialize_class_file, behind the read of the file: [ok, err, class].
\* A constant_pool_count of 0 makes the count of the loop 0 - 1: a panic
\* where overflow checks are compiled in, else 65535 entries, which a buffer
\* of fewer than 65535 bytes does not hold.
DeserializeClassFile(buf) ==
    LET Err(msgs) == [ok |-> FALSE, err |-> msgs, class |-> None]
    IN  Then(ReadU(buf, 0, 4), LAMBDA magic :
        IF ~magic.ok THEN Err(UnexpectedEof)
        ELSE IF magic.value # Magic THEN Err({"no cafebabe :("})
        ELSE Then(ReadFields(buf, magic.pos, <<2, 2>>), LAMBDA version :
        IF ~version.ok THEN Err(UnexpectedEof)
        ELSE IF version.values[2] > MaxMajorVersion
        THEN Err({"unsupported major_version {major_version}"})
        ELSE Then(ReadU(buf, version.pos, 2), LAMBDA count :
        IF ~count.ok THEN Err(UnexpectedEof)
        ELSE IF count.value = 0
        THEN Err({"attempt to subtract with overflow", "not yet implemented"}
                 \cup UnexpectedEof)
        ELSE Then(ConstantPool(buf, count.pos, count.value - 1), LAMBDA pool :
        IF ~pool.ok THEN Err(pool.err)
        ELSE Then(ReadFields(buf, pool.pos, <<2, 2, 2, 2>>), LAMBDA head :
        IF ~head.ok THEN Err(UnexpectedEof)
        ELSE Then(ReadFields(buf, head.pos, [i \in 1..head.values[4] |-> 2]),
                  LAMBDA interfaces :
        IF ~interfaces.ok THEN Err(UnexpectedEof)
        ELSE Then(ReadU(buf, interfaces.pos, 2), LAMBDA fields_count :
        IF ~fields_count.ok THEN Err(UnexpectedEof)
        ELSE Then(Members(buf, fields_count.pos, fields_count.value), LAMBDA fields :
        IF ~fields.ok THEN Err(fields.err)
        ELSE Then(ReadU(buf, fields.pos, 2), LAMBDA methods_count :
        IF ~methods_count.ok THEN Err(UnexpectedEof)
        ELSE Then(Members(buf, methods_count.pos, methods_count.value), LAMBDA methods :
        IF ~methods.ok THEN Err(methods.err)
        ELSE Then(ReadU(buf, methods.pos, 2), LAMBDA attributes_count :
        IF ~attributes_count.ok THEN Err(UnexpectedEof)
        ELSE Then(DeserializeAttributes(buf, attributes_count.pos,
                                        attributes_count.value), LAMBDA attributes :
        IF ~attributes.ok THEN Err(attributes.err)
        ELSE [ok |-> TRUE, err |-> {},
              class |-> Some([magic |-> magic.value,
                              minor_version |-> version.values[1],
                              major_version |-> version.values[2],
                              constant_pool_count |-> count.value,
                              constant_pool |-> pool.items,
                              access_flags |-> head.values[1],
                              this_class |-> head.values[2],
                              super_class |-> head.values[3],
                              interfaces_count |-> head.values[4],
                              interfaces |-> interfaces.values,
                              fields_count |-> fields_count.value,
                              fields |-> fields.items,
                              methods_count |-> methods_count.value,
                              methods |-> methods.items,
                              attributes_count |-> attributes_count.value,
                              attributes |-> attributes.items])]))))))))))))

(***************************************************************************)
(* The VM driver: VM::run and VM::initialize_java_lang_classes as the      *)
(* sequence of their calls.                                                *)
(***************************************************************************)
Call(op, name, method, descriptor) ==
    [op |-> op, name |-> name, method |-> method, descriptor |-> descriptor]
CallEnsureClass(name) == Call("ensure_class", name, "", VoidDescriptor)
CallEnsureArray(name) == Call("ensure_array", name, "", VoidDescriptor)

Driver(name) ==
    <<CallEnsureClass("java/lang/Class"),
      CallEnsureArray("[Z"), CallEnsureArray("[B"), CallEnsureArray("[S"),
      CallEnsureArray("[C"), CallEnsureArray("[I"), CallEnsureArray("[J"),
      CallEnsureArray("[F"), CallEnsureArray("[D"),
      CallEnsureArray("[Ljava/lang/Object;"),
      CallEnsureClass("java/lang/Object"),
      CallEnsureClass("java/lang/String"),
      CallEnsureClass("java/lang/System"),
      Call("Frame::new", "java/lang/System", "initPhase1", VoidDescriptor),
      Call("run", "", "", VoidDescriptor),
      CallEnsureClass(name),
      Call("Frame::new", name, "main", MainDescriptor),
      Call("run", "", "", VoidDescriptor)>>

Init ==
    /\ classes = [n \in {} |-> 0]
    /\ heap = HeapNew
    /\ threads = <<Thread(<<>>, "idle")>>
    /\ vm = [pc |-> 1, at |-> "call"]
    /\ main_name \in MainClasses
    /\ alu \in IF main_name = "Alu" THEN AluPrograms
               ELSE {[op |-> idiv, a |-> IntegerConst(0), b |-> IntegerConst(0)]}
    /\ error = ""
    /\ class_files = ClassFiles
    /\ clinit_entered = [n \in DOMAIN class_files |-> 0]
    /\ buffer = <<>>
    /\ descriptor_text = <<>>
    /\ parsed_descriptor = None
    /\ deserialized = None

Live == vm.at \notin {"exited", "aborted"}

\* the process ends with a panic or with the unwrap of an Err in run()
Abort(msgs) ==
    /\ vm' = [vm EXCEPT !.at = "aborted"]
    /\ error' \in msgs
    /\ UNCHANGED <<classes, heap, threads, main_name, alu, class_files, buffer, deserialized, descriptor_text, parsed_descriptor, clinit_entered>>

\* init_class: a fresh thread with the <clinit> frame runs on top of the caller
StartClinit(below, g) ==
    /\ threads' = Append(below, Thread(<<Unwrap(g.clinit)>>, "loop"))
    /\ classes' = g.classes
    /\ heap' = g.heap
    /\ clinit_entered' =
           [clinit_entered EXCEPT ![Unwrap(g.clinit).class_name] = @ + 1]

DriverAt(op) ==
    /\ Live
    /\ Len(threads) = 1
    /\ threads[1].at = "idle"
    /\ vm.at = "call"
    /\ vm.pc <= Len(Driver(main_name))
    /\ Driver(main_name)[vm.pc].op = op

\* self.global_memory.ensure_class(..)?
VMEnsureClass ==
    /\ DriverAt("ensure_class")
    /\ \E g \in {EnsureClass(classes, heap, Driver(main_name)[vm.pc].name)} :
           IF ~g.ok THEN Abort(g.err)
           ELSE IF IsSome(g.clinit)
           THEN /\ StartClinit(threads, g)
                /\ vm' = [vm EXCEPT !.at = "ensure"]
                /\ UNCHANGED <<main_name, alu, class_files, buffer, deserialized, descriptor_text, parsed_descriptor, error>>
           ELSE /\ classes' = g.classes
                /\ heap' = g.heap
                /\ vm' = [vm EXCEPT !.pc = @ + 1]
                /\ UNCHANGED <<threads, main_name, alu, class_files, buffer, deserialized, descriptor_text, parsed_descriptor, error, clinit_entered>>

\* self.global_memory.ensure_array(..)?
VMEnsureArray ==
    /\ DriverAt("ensure_array")
    /\ \E g \in {EnsureArray(classes, heap, Driver(main_name)[vm.pc].name)} :
           IF ~g.ok THEN Abort(g.err)
           ELSE /\ classes' = g.classes
                /\ heap' = g.heap
                /\ vm' = [vm EXCEPT !.pc = @ + 1]
                /\ UNCHANGED <<threads, main_name, alu, class_files, buffer, deserialized, descriptor_text, parsed_descriptor, error, clinit_entered>>

\* let current_frame = Frame::new(..)?; self.main_thread...jvm_stack.push(current_frame)
VMNewFrame ==
    /\ DriverAt("Frame::new")
    /\ \E call \in {Driver(main_name)[vm.pc]} :
       \E f \in {FrameNew(classes, call.name, call.method, call.descriptor)} :
           IF ~f.ok THEN Abort(f.err)
           ELSE /\ threads' = [threads EXCEPT ![1].jvm_stack = Append(@, Unwrap(f.frame))]
                /\ vm' = [vm EXCEPT !.pc = @ + 1]
                /\ UNCHANGED <<classes, heap, main_name, alu, class_files, buffer, deserialized, descriptor_text, parsed_descriptor, error, clinit_entered>>

\* self.main_thread.run(&mut self.global_memory)?
VMRun ==
    /\ DriverAt("run")
    /\ threads' = [threads EXCEPT ![1].at = "loop"]
    /\ vm' = [vm EXCEPT !.at = "run"]
    /\ UNCHANGED <<classes, heap, main_name, alu, class_files, buffer, deserialized, descriptor_text, parsed_descriptor, error, clinit_entered>>

\* a call of ensure_class or of run returns Ok to the driver
VMReturn ==
    /\ Live
    /\ Len(threads) = 1
    /\ threads[1].at = "idle"
    /\ vm.at \in {"ensure", "run"}
    /\ vm' = [pc |-> vm.pc + 1, at |-> "call"]
    /\ UNCHANGED <<classes, heap, threads, main_name, alu, class_files, buffer, deserialized, descriptor_text, parsed_descriptor, error, clinit_entered>>

\* VM::run returns Ok(())
VMExit ==
    /\ Live
    /\ Len(threads) = 1
    /\ threads[1].at = "idle"
    /\ vm.at = "call"
    /\ vm.pc > Len(Driver(main_name))
    /\ vm' = [vm EXCEPT !.at = "exited"]
    /\ UNCHANGED <<classes, heap, threads, main_name, alu, class_files, buffer, deserialized, descriptor_text, parsed_descriptor, error, clinit_entered>>

(***************************************************************************)
(* Thread::run: one iteration of its loop, by the thread on top.           *)
(***************************************************************************)
Running == threads[Len(threads)]
ThreadActive == Live /\ Running.at \in {"loop", "ensure"}

\* the head of the iteration; a thread that comes back from a <clinit> run
\* is past it
IterationHead ==
    IF Running.at = "ensure" THEN Done(Running, classes, heap)
    ELSE Prologue(Running, classes, heap)

\* code_bytes.get(current_frame.instruction_counter)
Fetch(th) ==
    IF IsSome(CurrentFrame(th).code_bytes)
    THEN ByteAt(CurrentFrame(th), CurrentFrame(th).instruction_counter)
    ELSE None

\* the outcome r of the arm, for the thread `head` behind the iteration's head
Commit(head, r) ==
    IF ~r.ok THEN Abort(r.err)
    ELSE IF IsSome(r.clinit)
    THEN /\ StartClinit(Append(Front(threads), [head EXCEPT !.at = "ensure"]), r)
         /\ UNCHANGED <<vm, main_name, alu, class_files, buffer, deserialized, descriptor_text, parsed_descriptor, error>>
    ELSE /\ threads' =
               IF r.break
               THEN IF Len(threads) > 1 THEN Front(threads)
                    ELSE <<[r.th EXCEPT !.at = "idle"]>>
               ELSE [threads EXCEPT ![Len(threads)] = [r.th EXCEPT !.at = "loop"]]
         /\ classes' = r.classes
         /\ heap' = r.heap
         /\ UNCHANGED <<vm, main_name, alu, class_files, buffer, deserialized, descriptor_text, parsed_descriptor, error, clinit_entered>>

\* the threads at the top of an iteration whose fetch yields one of the
\* instructions: the running thread behind the iteration's head, or none
Iteration(instructions) ==
    IF ~ThreadActive THEN {}
    ELSE {head \in {IterationHead} :
              /\ head.ok
              /\ IsSome(Fetch(head.th))
              /\ Unwrap(Fetch(head.th)) \in instructions}

\* the iteration ends in its head (the pop or handle_exception returned Err)
\* or at the fetch of the instruction
LoopAbort ==
    /\ ThreadActive
    /\ \E head \in {IterationHead} :
           IF ~head.ok THEN Abort(head.err)
           ELSE /\ IsSome(CurrentFrame(head.th).code_bytes)
                /\ ~IsSome(Fetch(head.th))
                /\ Abort({"no instruction at instruction_counter"})

Iconst ==
    \E head \in Iteration(2..8) :
        \E r \in {ExecIconst(head.th, classes, heap, Running.at = "ensure")} :
            Commit(head.th, r)

Bipush ==
    \E head \in Iteration({bipush}) :
        \E r \in {ExecBipush(head.th, classes, heap, Running.at = "ensure")} :
            Commit(head.th, r)

Ldc ==
    \E head \in Iteration({ldc, ldc_w}) :
        \E r \in {ExecLdc(head.th, classes, heap, Running.at = "ensure")} :
            Commit(head.th, r)

Shift ==
    \E head \in Iteration({ishl, lshl, ishr, iushr, lushr}) :
        \E r \in ExecShift(head.th, classes, heap, Running.at = "ensure") :
            Commit(head.th, r)

LongBinary ==
    \E head \in Iteration({ladd, lmul, land, lxor, lcmp}) :
        \E r \in ExecLongBinary(head.th, classes, heap, Running.at = "ensure") :
            Commit(head.th, r)

\* the iteration of a frame without code_bytes
Native ==
    /\ ThreadActive
    /\ \E head \in {IterationHead} :
           /\ head.ok
           /\ ~IsSome(CurrentFrame(head.th).code_bytes)
           /\ \E r \in ExecNative(head.th, classes, heap, Running.at = "ensure") :
                  Commit(head.th, r)

Lstore ==
    \E head \in Iteration({lstore} \cup (lstore_0..lstore_3)) :
        \E r \in {ExecLstore(head.th, classes, heap, Running.at = "ensure")} :
            Commit(head.th, r)

Lload ==
    \E head \in Iteration({lload} \cup (lload_0..lload_3)) :
        \E r \in {ExecLload(head.th, classes, heap, Running.at = "ensure")} :
            Commit(head.th, r)

AconstNull ==
    \E head \in Iteration({aconst_null}) :
        \E r \in {ExecAconstNull(head.th, classes, heap, Running.at = "ensure")} :
            Commit(head.th, r)

Newarray ==
    \E head \in Iteration({newarray}) :
        \E r \in {ExecNewarray(head.th, classes, heap, Running.at = "ensure")} :
            Commit(head.th, r)

ArrayLoad ==
    \E head \in Iteration({aaload, baload, caload}) :
        \E r \in {ExecArrayLoad(head.th, classes, heap, Running.at = "ensure")} :
            Commit(head.th, r)

Dup ==
    \E head \in Iteration({dup}) :
        \E r \in {ExecDup(head.th, classes, heap, Running.at = "ensure")} :
            Commit(head.th, r)

ArrayStore ==
    \E head \in Iteration({iastore, aastore, bastore}) :
        \E r \in {ExecArrayStore(head.th, classes, heap, Running.at = "ensure")} :
            Commit(head.th, r)

Getfield ==
    \E head \in Iteration({getfield}) :
        \E r \in {ExecGetfield(head.th, classes, heap, Running.at = "ensure")} :
            Commit(head.th, r)

Putfield ==
    \E head \in Iteration({putfield}) :
        \E r \in {ExecPutfield(head.th, classes, heap, Running.at = "ensure")} :
            Commit(head.th, r)

Convert ==
    \E head \in Iteration({i2l, l2i, i2b}) :
        \E r \in {ExecConvert(head.th, classes, heap, Running.at = "ensure")} :
            Commit(head.th, r)

Pop ==
    \E head \in Iteration({pop}) :
        \E r \in {ExecPop(head.th, classes, heap, Running.at = "ensure")} :
            Commit(head.th, r)

Idiv ==
    \E head \in Iteration({idiv}) :
        \E r \in {ExecIdiv(head.th, classes, heap, Running.at = "ensure")} :
            Commit(head.th, r)

Irem ==
    \E head \in Iteration({irem}) :
        \E r \in {ExecIrem(head.th, classes, heap, Running.at = "ensure")} :
            Commit(head.th, r)

Ireturn ==
    \E head \in Iteration({ireturn, 176, lreturn, dreturn}) :
        \E r \in {ExecIreturn(head.th, classes, heap, Running.at = "ensure")} :
            Commit(head.th, r)

Return ==
    \E head \in Iteration({return}) :
        \E r \in {ExecReturn(head.th, classes, heap, Running.at = "ensure")} :
            Commit(head.th, r)

Getstatic ==
    \E head \in Iteration({getstatic}) :
        \E r \in {ExecGetstatic(head.th, classes, heap, Running.at = "ensure")} :
            Commit(head.th, r)

Putstatic ==
    \E head \in Iteration({putstatic}) :
        \E r \in {ExecPutstatic(head.th, classes, heap, Running.at = "ensure")} :
            Commit(head.th, r)

Invokevirtual ==
    \E head \in Iteration({invokevirtual}) :
        \E r \in {ExecInvokevirtual(head.th, classes, heap, Running.at = "ensure")} :
            Commit(head.th, r)

Invokestatic ==
    \E head \in Iteration({invokestatic}) :
        \E r \in {ExecInvokestatic(head.th, classes, heap, Running.at = "ensure")} :
            Commit(head.th, r)

New ==
    \E head \in Iteration({new}) :
        \E r \in {ExecNew(head.th, classes, heap, Running.at = "ensure")} :
            Commit(head.th, r)

Athrow ==
    \E head \in Iteration({athrow}) :
        \E r \in {ExecAthrow(head.th, classes, heap, Running.at = "ensure")} :
            Commit(head.th, r)


Next ==
    \/ VMEnsureClass
    \/ VMEnsureArray
    \/ VMNewFrame
    \/ VMRun
    \/ VMReturn
    \/ VMExit
    \/ LoopAbort
    \/ Iconst
    \/ Bipush
    \/ Ldc
    \/ Shift
    \/ LongBinary
    \/ Convert
    \/ Native
    \/ Lstore
    \/ Lload
    \/ AconstNull
    \/ Newarray
    \/ ArrayLoad
    \/ Dup
    \/ ArrayStore
    \/ Getfield
    \/ Putfield
    \/ Pop
    \/ Idiv
    \/ Irem
    \/ Ireturn
    \/ Return
    \/ Getstatic
    \/ Putstatic
    \/ Invokevirtual
    \/ Invokestatic
    \/ New
    \/ Athrow

Spec == Init /\ [][Next]_vars

\* The runs of the class-lifecycle programs: the main classes whose code has
\* no arithmetic on bit patterns, and the instructions those programs are
\* made of.
LifecycleInit == Init /\ main_name \notin {"Alu", "Calls"}

LifecycleNext ==
    \/ VMEnsureClass
    \/ VMEnsureArray
    \/ VMNewFrame
    \/ VMRun
    \/ VMReturn
    \/ VMExit
    \/ LoopAbort
    \/ Iconst
    \/ Bipush
    \/ Native
    \/ Pop
    \/ Idiv
    \/ Irem
    \/ Ireturn
    \/ Return
    \/ Getstatic
    \/ Putstatic
    \/ Invokevirtual
    \/ Invokestatic
    \/ New
    \/ Athrow

\* the VM is one sequential process: it takes its next step whenever it has one
FairSpec == LifecycleInit /\ [][LifecycleNext]_vars /\ WF_vars(LifecycleNext)

(***************************************************************************)
(* deserialize_class_file as a function of the bytes of the file: the      *)
(* files it is applied to, and the specification that applies it.          *)
(***************************************************************************)
\* the tags of the constant pool that a class file may hold
ClassFileTags == {1, 3, 4, 5, 6, 7, 8, 9, 10, 11, 12, 15, 16, 18}

\* a constant with the tag t as the class file holds it (nothing for t = 0)
\* and the number of constant-pool indices it takes there
ConstantBytes(t) ==
    CASE t = 0 -> <<>>
      [] t = 1 -> <<1, 0, 1, 67>>
      [] t \in {3, 4} -> <<t, 0, 0, 0, 7>>
      [] t \in {5, 6} -> <<t, 0, 0, 0, 0, 0, 0, 0, 7>>
      [] t \in {7, 8, 16} -> <<t, 0, 1>>
      [] t \in {9, 10, 11, 12, 18} -> <<t, 0, 2, 0, 1>>
      [] t = 15 -> <<t, 1, 0, 2>>
      [] OTHER -> <<t>>
ConstantSlots(t) == IF t = 0 THEN 0 ELSE IF t \in {5, 6} THEN 2 ELSE 1

\* the file of a class A with the constants #1 Utf8 "A", #2 Class #1, the
\* constant of tag p.tag, and last Utf8 "B"; one interface, one field with
\* an attribute of 1 byte, one method, one attribute of 2 bytes.  p gives
\* the last byte of the magic, the major version and the lengths that the
\* Utf8 "A" and the last attribute declare.
ClassFileBytes(p) ==
    <<202, 254, 186, p.magic, 0, 0, 0, p.major, 0, 4 + ConstantSlots(p.tag)>>
    \o <<1, 0, p.utf8_length, 65>> \o <<7, 0, 1>>
    \o ConstantBytes(p.tag) \o <<1, 0, 1, 66>>
    \o <<0, 33, 0, 2, 0, 0>> \o <<0, 1, 0, 2>>
    \o <<0, 1>> \o <<0, 2, 0, 1, 0, 1, 0, 1>> \o <<0, 1, 0, 0, 0, 1, 9>>
    \o <<0, 1>> \o <<0, 1, 0, 1, 0, 1, 0, 0>>
    \o <<0, 1>> \o <<0, 1, 0, 0, 0, p.attribute_length, 8, 9>>

WellFormed == [magic |-> 190, major |-> 55, tag |-> 0, utf8_length |-> 1,
               attribute_length |-> 2]

\* the files deserialize_class_file is applied to: the variations of the
\* file and every prefix of the well-formed one
Buffers ==
    {ClassFileBytes(p) : p \in [magic : {190, 191}, major : {45, 55, 56},
                                tag : ClassFileTags \cup {0, 2},
                                utf8_length : {1, 200},
                                attribute_length : {2, 3}]}
    \cup {SubSeq(ClassFileBytes(WellFormed), 1, n) :
              n \in 0..Len(ClassFileBytes(WellFormed))}

DeserializeInit ==
    /\ classes = [n \in {} |-> 0]
    /\ heap = HeapNew
    /\ threads = <<Thread(<<>>, "idle")>>
    /\ vm = [pc |-> 1, at |-> "call"]
    /\ main_name = "Calls"
    /\ alu = [op |-> idiv, a |-> IntegerConst(0), b |-> IntegerConst(0)]
    /\ error = ""
    /\ class_files = ClassFiles
    /\ clinit_entered = [n \in DOMAIN class_files |-> 0]
    /\ buffer \in Buffers
    /\ descriptor_text = <<>>
    /\ parsed_descriptor = None
    /\ deserialized = None

Deserialize ==
    /\ deserialized = None
    /\ deserialized' = Some(DeserializeClassFile(buffer))
    /\ UNCHANGED <<classes, heap, threads, vm, main_name, alu, class_files, error,
                   clinit_entered, buffer, descriptor_text, parsed_descriptor>>

DeserializeSpec == DeserializeInit /\ [][Deserialize]_vars

(***************************************************************************)
(* parse.rs: the descriptor parser.  A text is the sequence of its          *)
(* characters; Chars, the iterator over it, is the text and a position.     *)
(* An outcome is "ok", "error" (an Err result) or "panic".                  *)
(***************************************************************************)

Rejected(outcome, err, pos) ==
    [outcome |-> outcome, err |-> err, field_type |-> [tag |-> ""], pos |-> pos]

\* chars.take_while(|c| *c != ';'): the position of the first ';' from pos on,
\* or the position behind the text when there is none
RECURSIVE TakeWhileNotSemicolon(_, _)
TakeWhileNotSemicolon(text, pos) ==
    IF pos > Len(text) \/ text[pos] = ";" THEN pos
    ELSE TakeWhileNotSemicolon(text, pos + 1)

\* parse_field_type: [outcome, err, field_type, pos], pos the position of the
\* iterator afterwards
RECURSIVE ParseFieldType(_, _)
ParseFieldType(text, pos) ==
    IF pos > Len(text)
    THEN Rejected("error", "failed to get first char of field_type", pos)
    ELSE CASE text[pos] = "L" ->
                  LET end == TakeWhileNotSemicolon(text, pos + 1)
                  IN  [outcome |-> "ok", err |-> "",
                       field_type |-> [tag |-> "L", name |-> SubSeq(text, pos + 1, end - 1)],
                       pos |-> IF end > Len(text) THEN end ELSE end + 1]
           [] text[pos] = "[" ->
                  LET of == ParseFieldType(text, pos + 1)
                  IN  IF of.outcome # "ok" THEN of
                      ELSE [of EXCEPT !.field_type = [tag |-> "[", of |-> of.field_type]]
           [] text[pos] \in {"I", "J", "Z", "B", "C", "S", "D", "F"} ->
                  [outcome |-> "ok", err |-> "", field_type |-> [tag |-> text[pos]],
                   pos |-> pos + 1]
           [] OTHER ->
                  Rejected("panic",
                           "internal error: entered unreachable code: encountered "
                               \o text[pos],
                           pos + 1)

\* parse_field_descriptor
ParseFieldDescriptor(field_descriptor) == ParseFieldType(field_descriptor, 1)

\* the loop of parse_method_descriptor over the parameter descriptors, from
\* pos on: [outcome, err, parameter_descriptors, pos]
RECURSIVE ParseParameters(_, _, _)
ParseParameters(text, pos, parameter_descriptors) ==
    IF pos > Len(text)
    THEN [outcome |-> "panic", err |-> "called Option::unwrap() on a None value",
          parameter_descriptors |-> parameter_descriptors, pos |-> pos]
    ELSE IF text[pos] = ")"
    THEN [outcome |-> "ok", err |-> "",
          parameter_descriptors |-> parameter_descriptors, pos |-> pos]
    ELSE LET field_type == ParseFieldType(text, pos)
         IN  IF field_type.outcome # "ok"
             THEN [outcome |-> field_type.outcome, err |-> field_type.err,
                   parameter_descriptors |-> parameter_descriptors, pos |-> field_type.pos]
             ELSE ParseParameters(text, field_type.pos,
                                  Append(parameter_descriptors, field_type.field_type))

\* parse_method_descriptor: [outcome, err, parameter_descriptors,
\* return_descriptor]; the first character is skipped unseen
ParseMethodDescriptor(method_descriptor) ==
    LET Failure(outcome, err) ==
            [outcome |-> outcome, err |-> err, parameter_descriptors |-> <<>>,
             return_descriptor |-> [tag |-> ""]]
        parameters == ParseParameters(method_descriptor, 2, <<>>)
        close == parameters.pos + 1
    IN  IF parameters.outcome # "ok" THEN Failure(parameters.outcome, parameters.err)
        ELSE IF close > Len(method_descriptor)
        THEN Failure("panic", "called Option::unwrap() on a None value")
        ELSE IF method_descriptor[close] = "V"
        THEN [outcome |-> "ok", err |-> "",
              parameter_descriptors |-> parameters.parameter_descriptors,
              return_descriptor |-> [tag |-> "V"]]
        ELSE LET field_type == ParseFieldType(method_descriptor, close)
             IN  IF field_type.outcome # "ok"
                 THEN Failure(field_type.outcome, field_type.err)
                 ELSE [outcome |-> "ok", err |-> "",
                       parameter_descriptors |-> parameters.parameter_descriptors,
                       return_descriptor |-> field_type.field_type]

\* the longest descriptor text that is parsed
MaxDescriptorLen == 4

\* the characters of the descriptor texts: the brackets of a method
\* descriptor, the prefixes of a class and of an array type, the terminator of
\* a class name, a primitive type, void, and a character that starts no type
DescriptorChars == {"(", ")", "L", ";", "[", "I", "V", "x"}

Descriptors == UNION {[1..n -> DescriptorChars] : n \in 0..MaxDescriptorLen}

DescriptorInit ==
    /\ classes = [n \in {} |-> 0]
    /\ heap = HeapNew
    /\ threads = <<Thread(<<>>, "idle")>>
    /\ vm = [pc |-> 1, at |-> "call"]
    /\ main_name = "Calls"
    /\ alu = [op |-> idiv, a |-> IntegerConst(0), b |-> IntegerConst(0)]
    /\ class_files = ClassFiles
    /\ error = ""
    /\ clinit_entered = [n \in DOMAIN class_files |-> 0]
    /\ buffer = <<>>
    /\ deserialized = None
    /\ descriptor_text \in Descriptors
    /\ parsed_descriptor = None

\* the text is parsed as a field descriptor and as a method descriptor
ParseDescriptor ==
    /\ parsed_descriptor = None
    /\ parsed_descriptor' = Some([field |-> ParseFieldDescriptor(descriptor_text),
                                  method |-> ParseMethodDescriptor(descriptor_text)])
    /\ UNCHANGED <<classes, heap, threads, vm, main_name, alu, class_files, error,
                   clinit_entered, buffer, deserialized, descriptor_text>>

DescriptorSpec == DescriptorInit /\ [][ParseDescriptor]_vars

(***************************************************************************)
(* Class lifecycle properties                                              *)
(***************************************************************************)
\* C1: over any run the <clinit> method of each class is entered at most
\* once.
C1_ClinitEnteredAtMostOnce ==
    \A c \in DOMAIN clinit_entered : clinit_entered[c] <= 1

\* C2: ensure_class(X) for a class X that is already Initialized returns
\* success and changes nothing: the method area and the heap are the same
\* afterwards (no record added or replaced, no mirror allocated, static
\* storage unchanged) and no <clinit> frame is built.
C2_EnsureInitializedChangesNothing ==
    \A X \in DOMAIN classes :
        (classes[X].kind = "instance" /\ classes[X].initialized)
            => EnsureClass(classes, heap, X) =
                   [ok |-> TRUE, err |-> {}, classes |-> classes, heap |-> heap,
                    clinit |-> None]

\* main of Statics is past its second getstatic Counter.x: the second
\* ensure_class("Counter") has met the Initialized class
C2_SecondGetstaticDone ==
    /\ Len(threads) = 1
    /\ threads[1].jvm_stack # <<>>
    /\ CurrentFrame(threads[1]).class_name = "Statics"
    /\ CurrentFrame(threads[1]).instruction_counter = 7
    /\ "Counter" \in DOMAIN classes
    /\ classes["Counter"].initialized
    /\ clinit_entered["Counter"] = 1

\* C3: for every class record C with a superclass S, the instance-field
\* layout of C is the complete layout of S (same entries, same order, same
\* widths) followed by C's own non-static fields in declaration order.
C3_LayoutStartsWithSuperclassLayout ==
    \A C \in DOMAIN classes :
        (classes[C].kind = "instance" /\ IsSome(class_files[C].super_class)) =>
            LET S == Unwrap(class_files[C].super_class)
                own == SelectSeq(class_files[C].fields, LAMBDA f : ~f.access.static)
                layout == classes[C].fields
            IN  /\ S \in DOMAIN classes
                /\ Len(layout) = Len(classes[S].fields) + Len(own)
                /\ \A i \in 1..Len(classes[S].fields) : layout[i] = classes[S].fields[i]
                /\ \A j \in 1..Len(own) :
                       LET entry == layout[Len(classes[S].fields) + j]
                       IN  /\ entry.class_name = C
                           /\ entry.field_name = own[j].name
                           /\ entry.field_width =
                                  IF own[j].field_type \in {"J", "D"} THEN 2 ELSE 1

\* Sub is in the method area with the two inherited fields of Base (widths
\* 2 and 1) in front of its own two
C3_SubLoaded ==
    /\ "Sub" \in DOMAIN classes
    /\ "Base" \in DOMAIN classes
    /\ Len(classes["Base"].fields) = 2
    /\ Len(classes["Sub"].fields) = 4
    /\ classes["Sub"].fields[1].class_name = "Base"
    /\ classes["Sub"].fields[1].field_width = 2
    /\ classes["Sub"].fields[3].class_name = "Sub"

\* C4: for every linked class the static storage has as many cells as the
\* sum of the widths of its static-field layout (2 for long/double, 1
\* otherwise); the cells are all zero right after linking; linking the class
\* again does not grow the storage.
C4_StaticStorageMatchesLayout ==
    [][\A c \in DOMAIN classes' :
          LET klass == classes'[c]
              widths == [i \in 1..Len(klass.static_fields) |->
                            IF klass.static_fields[i].field_type \in {"J", "D"}
                            THEN 2 ELSE 1]
              cells == Len(Flatten([i \in 1..Len(widths) |-> Zeros(widths[i])]))
              was_linked == c \in DOMAIN classes /\ IsSome(classes[c].constant_pool)
          IN  (klass.kind = "instance" /\ IsSome(klass.constant_pool)) =>
                  /\ Len(klass.static_field_values) = cells
                  /\ ~was_linked => klass.static_field_values = Zeros(cells)
                  /\ LinkClass(Global(classes', heap'), c).classes[c].static_field_values
                         = klass.static_field_values]_vars

\* java/lang/String is linked: three cells for its long and its boolean
\* static field
C4_StringLinked ==
    /\ "java/lang/String" \in DOMAIN classes
    /\ IsSome(classes["java/lang/String"].constant_pool)
    /\ Len(classes["java/lang/String"].static_fields) = 2
    /\ classes["java/lang/String"].static_fields[1].field_type = "J"
    /\ Len(classes["java/lang/String"].static_field_values) = 3

(***************************************************************************)
(* Exception propagation properties.  A thread with at = "loop" is at the  *)
(* start of an iteration of the loop of Thread::run; thrown is the          *)
(* reference handle_exception was last entered with, and hx tells what the *)
(* last iteration's handle_exception did.                                  *)
(***************************************************************************)
\* C5: at the start of a loop iteration, if is_throwing is true then the
\* topmost entry of the current frame's operand stack is the reference of
\* the exception that is being propagated.
C5_ThrowingTopIsException ==
    \A i \in 1..Len(threads) :
        (threads[i].at = "loop" /\ threads[i].is_throwing) =>
            /\ threads[i].jvm_stack # <<>>
            /\ CurrentFrame(threads[i]).operand_stack # <<>>
            /\ IsSome(threads[i].thrown)
            /\ Last(CurrentFrame(threads[i]).operand_stack) = Unwrap(threads[i].thrown)

\* C6: when handle_exception has found a handler in the current frame, for
\* an exception thrown here or propagated from a callee, is_throwing is
\* false afterwards, so that the exception is not handled a second time.
C6_FoundClearsThrowing ==
    \A i \in 1..Len(threads) :
        threads[i].hx = "found" => ~threads[i].is_throwing

\* C7: when handle_exception finds no handler in a frame that has a caller,
\* one frame is popped, is_throwing is set and the reference is on top of
\* the caller's operand stack when the iteration ends, so that the caller's
\* next iteration enters handle_exception with the same reference.
C7_UnwoundLeavesExceptionOnCaller ==
    \A i \in 1..Len(threads) :
        threads[i].hx = "unwound" =>
            /\ threads[i].is_throwing
            /\ threads[i].jvm_stack # <<>>
            /\ CurrentFrame(threads[i]).operand_stack # <<>>
            /\ Last(CurrentFrame(threads[i]).operand_stack) = Unwrap(threads[i].thrown)

\* C8: handle_exception matches an exception-table entry whose range covers
\* the instruction counter when its catch_type names the class of the thrown
\* object or an ancestor of it on the superclass chain: an athrow under such
\* an entry ends in the handler.
C8_AncestorHandlerCatches ==
    LET RECURSIVE IsAncestorOrSelf(_, _)
        IsAncestorOrSelf(a, c) ==
            \/ a = c
            \/ /\ c \in DOMAIN class_files
               /\ IsSome(class_files[c].super_class)
               /\ IsAncestorOrSelf(a, Unwrap(class_files[c].super_class))
        th == Running
        fr == CurrentFrame(th)
        pool == Unwrap(Upgrade(classes, fr))
        thrown_class == heap[Last(fr.operand_stack) + 1].field_descriptor.name
        table == Unwrap(fr.exception_table)
    IN  (/\ ThreadActive
         /\ th.at = "loop"
         /\ ~th.is_throwing
         /\ Fetch(th) = Some(athrow)
         /\ fr.operand_stack # <<>>
         /\ \E e \in 1..Len(table) :
                /\ table[e].start_pc <= fr.instruction_counter
                /\ fr.instruction_counter < table[e].end_pc
                /\ table[e].catch_type \in 1..Len(pool)
                /\ IsAncestorOrSelf(pool[table[e].catch_type].class, thrown_class))
        => LET r == ExecAthrow(th, classes, heap, FALSE)
           IN  r.ok /\ r.th.hx = "found"

\* C9: an exception-table entry with catch_type 0 whose range covers the
\* instruction counter matches every thrown object: an athrow under such an
\* entry ends in the handler, without an error.
C9_CatchAllCatches ==
    LET th == Running
        fr == CurrentFrame(th)
        table == Unwrap(fr.exception_table)
    IN  (/\ ThreadActive
         /\ th.at = "loop"
         /\ ~th.is_throwing
         /\ Fetch(th) = Some(athrow)
         /\ fr.operand_stack # <<>>
         /\ \E e \in 1..Len(table) :
                /\ table[e].start_pc <= fr.instruction_counter
                /\ fr.instruction_counter < table[e].end_pc
                /\ table[e].catch_type = 0)
        => LET r == ExecAthrow(th, classes, heap, FALSE)
           IN  r.ok /\ r.th.hx = "found"

\* C10: idiv and irem with a divisor of 0 raise an ArithmeticException that
\* enters handle_exception: under a covering handler for ArithmeticException
\* the instruction ends in the handler and the VM is not aborted.
C10_DivisionByZeroIsCaught ==
    LET th == Running
        fr == CurrentFrame(th)
        pool == Unwrap(Upgrade(classes, fr))
        table == Unwrap(fr.exception_table)
    IN  (/\ ThreadActive
         /\ th.at = "loop"
         /\ ~th.is_throwing
         /\ Fetch(th) \in {Some(idiv), Some(irem)}
         /\ Len(fr.operand_stack) >= 2
         /\ Last(fr.operand_stack) = 0
         /\ \E e \in 1..Len(table) :
                /\ table[e].start_pc <= fr.instruction_counter
                /\ fr.instruction_counter < table[e].end_pc
                /\ table[e].catch_type \in 1..Len(pool)
                /\ pool[table[e].catch_type].class = "java/lang/ArithmeticException")
        => LET r == IF Fetch(th) = Some(idiv)
                    THEN ExecIdiv(th, classes, heap, FALSE)
                    ELSE ExecIrem(th, classes, heap, FALSE)
           IN  r.ok /\ r.th.hx = "found"


\* C11: idiv with the dividend Integer.MIN_VALUE and the divisor -1 pushes
\* Integer.MIN_VALUE, advances the instruction counter by 1 and raises no
\* error.
C11_MinByMinusOneIsMin ==
    LET th == Running
        fr == CurrentFrame(th)
        n == Len(fr.operand_stack)
    IN  (/\ ThreadActive
         /\ th.at = "loop"
         /\ ~th.is_throwing
         /\ Fetch(th) = Some(idiv)
         /\ n >= 2
         /\ fr.operand_stack[n - 1] = MinI32
         /\ fr.operand_stack[n] = -1)
        => LET r == ExecIdiv(th, classes, heap, FALSE)
           IN  /\ r.ok
               /\ CurrentFrame(r.th).operand_stack =
                      Append(SubSeq(fr.operand_stack, 1, n - 2), MinI32)
               /\ CurrentFrame(r.th).instruction_counter = fr.instruction_counter + 1

\* C12: for every shift count s, ishl, ishr and iushr shift by s mod 32 and
\* lshl and lushr shift by s mod 64, and no shift count produces an error.
C12_ShiftCountIsMasked ==
    LET th == Running
        fr == CurrentFrame(th)
        n == Len(fr.operand_stack)
        op == Unwrap(Fetch(th))
        long == op \in {lshl, lushr}
        cells == IF long THEN 3 ELSE 2
        width == IF long THEN 64 ELSE 32
        s == fr.operand_stack[n] % width
        x == IF long
             THEN Bits(fr.operand_stack[n - 1], 32) \o Bits(fr.operand_stack[n - 2], 32)
             ELSE Bits(fr.operand_stack[n - 1], 32)
        shifted == CASE op \in {ishl, lshl} -> ShiftLeft(x, s)
                     [] op = ishr -> ShiftRight(x, s, x[width])
                     [] OTHER -> ShiftRight(x, s, 0)
        below == SubSeq(fr.operand_stack, 1, n - cells)
        expected == IF long
                    THEN below \o <<Word(SubSeq(shifted, 33, 64)), Word(SubSeq(shifted, 1, 32))>>
                    ELSE Append(below, Word(shifted))
    IN  (/\ ThreadActive
         /\ th.at = "loop"
         /\ ~th.is_throwing
         /\ Fetch(th) \in {Some(ishl), Some(lshl), Some(ishr), Some(iushr), Some(lushr)}
         /\ n >= cells)
        => \A r \in ExecShift(th, classes, heap, FALSE) :
               r.ok /\ CurrentFrame(r.th).operand_stack = expected

C14_LongOperandsRecombined ==
    LET th == Running
        fr == CurrentFrame(th)
        n == Len(fr.operand_stack)
        op == Unwrap(Fetch(th))
        value1 == Bits(fr.operand_stack[n - 2], 32) \o Bits(fr.operand_stack[n - 3], 32)
        value2 == Bits(fr.operand_stack[n], 32) \o Bits(fr.operand_stack[n - 1], 32)
        result == CASE op = ladd -> AddBits(value1, value2, 0)
                    [] op = lmul -> MulBits(value1, value2)
                    [] op = land -> [k \in 1..64 |-> IF value1[k] + value2[k] = 2 THEN 1 ELSE 0]
                    [] op = lxor -> [k \in 1..64 |-> IF value1[k] # value2[k] THEN 1 ELSE 0]
                    [] OTHER -> <<>>
        below == SubSeq(fr.operand_stack, 1, n - 4)
        expected == IF op = lcmp
                    THEN Append(below, Compare(value1, value2, 64))
                    ELSE below \o <<Word(SubSeq(result, 33, 64)), Word(SubSeq(result, 1, 32))>>
    IN  (/\ ThreadActive
         /\ th.at = "loop"
         /\ ~th.is_throwing
         /\ Fetch(th) \in {Some(ladd), Some(lmul), Some(land), Some(lxor), Some(lcmp)}
         /\ n >= 4)
        => \A r \in ExecLongBinary(th, classes, heap, FALSE) :
               r.ok /\ CurrentFrame(r.th).operand_stack = expected

\* C15: a return opcode (return, ireturn, lreturn, dreturn, areturn) executed
\* in the only frame on the thread's frame stack ends the thread's
\* interpreter loop normally, without an error.
C15_ReturnFromLastFrameEndsThread ==
    LET th == Running
        fr == CurrentFrame(th)
        op == Unwrap(Fetch(th))
    IN  (/\ ThreadActive
         /\ th.at = "loop"
         /\ ~th.is_throwing
         /\ Len(th.jvm_stack) = 1
         /\ Fetch(th) \in {Some(return), Some(ireturn), Some(lreturn), Some(dreturn),
                           Some(176)}
         /\ Len(fr.operand_stack) >= (CASE op = return -> 0
                                        [] op \in {lreturn, dreturn} -> 2
                                        [] OTHER -> 1))
        => LET r == IF op = return THEN ExecReturn(th, classes, heap, FALSE)
                    ELSE ExecIreturn(th, classes, heap, FALSE)
           IN  r.ok /\ r.break

(***************************************************************************)
(* Class file decoder properties                                           *)
(***************************************************************************)
\* C16: decoding a byte buffer fails with an error when its first 4 bytes
\* are not CA FE BA BE, when the major version is greater than 55, or when a
\* length-prefixed region (the bytes of a Utf8 constant, the info of an
\* attribute) declares more bytes than remain in the buffer; no class record
\* is produced in these cases.  A record that was produced shows an overrun
\* as a region shorter than its declared length.
C16_MalformedBufferIsRejected ==
    deserialized # None =>
        LET r == Unwrap(deserialized)
            class == Unwrap(r.class)
            Short(attributes) ==
                \E i \in 1..Len(attributes) :
                    Len(attributes[i].info) # attributes[i].attribute_length
            ShortIn(members) ==
                \E i \in 1..Len(members) : Short(members[i].attributes)
        IN  /\ ~r.ok => r.class = None
            /\ (Len(buffer) < 4 \/ SubSeq(buffer, 1, 4) # <<202, 254, 186, 190>>) => ~r.ok
            /\ (Len(buffer) >= 8 /\ buffer[7] * 256 + buffer[8] > 55) => ~r.ok
            /\ r.ok =>
                  /\ \A i \in 1..Len(class.constant_pool) :
                         class.constant_pool[i].tag = 1 =>
                             Len(class.constant_pool[i].bytes) = class.constant_pool[i].length
                  /\ ~Short(class.attributes)
                  /\ ~ShortIn(class.fields)
                  /\ ~ShortIn(class.methods)

\* C18: the constant-pool decoder accepts every tag in {1, 3, 4, 5, 6, 7, 8,
\* 9, 10, 11, 12, 15, 16, 18}, and a Long (5) or Double (6) entry takes two
\* slots of the decoded pool, so that an entry behind it is found at the
\* index the class file uses for it.
C18_EveryTagDecodedAtItsIndex ==
    \A t \in ClassFileTags :
        (/\ buffer = ClassFileBytes([WellFormed EXCEPT !.tag = t])
         /\ deserialized # None)
        => LET r == Unwrap(deserialized)
               pool == Unwrap(r.class).constant_pool
           IN  /\ r.ok
               /\ Len(pool) = 3 + ConstantSlots(t)
               /\ pool[3].tag = t
               /\ pool[3 + ConstantSlots(t)] = [tag |-> 1, length |-> 1, bytes |-> <<66>>]

\* C17: every loaded class was decoded from the first class path directory that
\* holds <name>.class: its static fields are the static fields of that file.
C17_FirstDirectoryWins ==
    \A n \in DOMAIN classes :
        (classes[n].kind = "instance" /\ \E i \in DOMAIN class_path : Exists(class_path[i], n)) =>
            LET first == CHOOSE i \in DOMAIN class_path :
                             /\ Exists(class_path[i], n)
                             /\ \A j \in 1..(i - 1) : ~Exists(class_path[j], n)
                declared == SelectSeq(FileAt(class_path[first], n).fields,
                                      LAMBDA f : f.access.static)
            IN  [i \in DOMAIN classes[n].static_fields |-> classes[n].static_fields[i].field_name]
                    = [i \in DOMAIN declared |-> declared[i].name]

\* C19: i2b pushes (byte) x, the low 8 bits of x sign-extended to 32 bits,
\* also when x was widened with i2l and narrowed back with l2i before.
C19_I2bSignExtendsLowByte ==
    LET th == Running
        fr == CurrentFrame(th)
        n == Len(fr.operand_stack)
        byte(x) == ((x + 128) % 256) - 128
    IN  (/\ ThreadActive
         /\ th.at = "loop"
         /\ ~th.is_throwing
         /\ Fetch(th) = Some(i2b)
         /\ n >= 1)
        => LET r == ExecConvert(th, classes, heap, FALSE)
           IN  /\ r.ok
               /\ CurrentFrame(r.th).operand_stack =
                      Append(SubSeq(fr.operand_stack, 1, n - 1), byte(fr.operand_stack[n]))
               /\ (main_name = "Alu" /\ alu.op = i2l) =>
                      CurrentFrame(r.th).operand_stack[n] = byte(alu.a.value)

\* C20: ldc and ldc_w of a String constant push the reference of a newly
\* allocated java/lang/String instance; its value field holds the reference of
\* a new [B array whose cells are the bytes of the constant's Utf8 entry, one
\* cell per byte and in order, its coder field is 1 and its other fields are 0.
C20_LdcStringMaterializesString ==
    LET th == Running
        fr == CurrentFrame(th)
        wide == Fetch(th) = Some(ldc_w)
        klass == classes["java/lang/String"]
        ref == Len(heap)
        cells == Flatten([i \in DOMAIN klass.fields |->
                             CASE klass.fields[i].field_name = "value" -> <<ref + 1>>
                               [] klass.fields[i].field_name = "coder" -> <<1>>
                               [] OTHER -> Zeros(klass.fields[i].field_width)])
    IN  (/\ ThreadActive
         /\ th.at = "loop"
         /\ ~th.is_throwing
         /\ Fetch(th) \in {Some(ldc), Some(ldc_w)}
         /\ fr.class_name = "Alu"
         /\ alu.a.tag = "ConstantStringInfo")
        => LET r == ExecLdc(th, classes, heap, FALSE)
           IN  /\ r.ok
               /\ CurrentFrame(r.th).operand_stack = Append(fr.operand_stack, ref)
               /\ CurrentFrame(r.th).instruction_counter =
                      fr.instruction_counter + (IF wide THEN 3 ELSE 2)
               /\ r.heap = heap \o <<HeapItem(ClassDescriptor("java/lang/String"), cells),
                                     HeapItem(ByteArrayDescriptor, alu.a.bytes)>>

\* ldc or ldc_w has pushed the String of a text with a character of three or
\* four bytes
C20_StringPushed ==
    /\ ThreadActive
    /\ main_name = "Alu"
    /\ alu.op \in {ldc, ldc_w}
    /\ alu.a.bytes \in {<<240, 159, 152, 128>>, <<72, 226, 130, 172>>}
    /\ CurrentFrame(Running).class_name = "Alu"
    /\ Fetch(Running) = Some(pop)
    /\ CurrentFrame(Running).operand_stack = <<Len(heap) - 2>>
    /\ heap[Len(heap)].data = alu.a.bytes
    /\ heap[Len(heap) - 1].data = <<Len(heap) - 1, 1, 0>>

\* C21: the heap is append-only. Index 0 holds the null item, which has no
\* cells; a store returns the previous length of the heap, which is never 0; and
\* no step removes a heap item or changes the descriptor or the number of cells
\* of an item that exists.
C21_HeapIsAppendOnly ==
    /\ heap[1] = HeapItem(NullDescriptor, <<>>)
    /\ [][/\ Len(heap') >= Len(heap)
          /\ Len(heap) >= 1
          /\ HeapStore(heap, ByteArrayDescriptor, <<>>).ref = Len(heap)
          /\ heap'[1] = HeapItem(NullDescriptor, <<>>)
          /\ \A i \in 1..Len(heap) :
                 /\ heap'[i].field_descriptor = heap[i].field_descriptor
                 /\ Len(heap'[i].data) = Len(heap[i].data)]_vars

\* an instance was allocated after the mirrors of the bootstrap classes and one
\* of its cells has been written since
C21_HeapGrewAndWasWritten ==
    \E i \in 2..(Len(heap) - 1) :
        /\ heap[i].field_descriptor = ClassDescriptor("java/lang/String")
        /\ heap[i].data[1] = i
        /\ heap[i + 1].field_descriptor = ByteArrayDescriptor

\* C22: no step removes or replaces a class record of the method area or
\* replaces the resolved constant pool of a linked class, and the weak
\* constant pool reference of every frame on every frame stack upgrades in
\* every reachable state.
C22_PoolReferencesUpgrade ==
    /\ [][\A n \in DOMAIN classes :
              /\ n \in DOMAIN classes'
              /\ classes'[n].kind = classes[n].kind
              /\ classes[n].kind = "instance" =>
                     /\ classes'[n].parsed_class = classes[n].parsed_class
                     /\ classes'[n].fields = classes[n].fields
                     /\ classes'[n].static_fields = classes[n].static_fields
                     /\ IsSome(classes[n].constant_pool) =>
                            classes'[n].constant_pool = classes[n].constant_pool]_vars
    /\ [](\A t \in DOMAIN threads :
              \A f \in DOMAIN threads[t].jvm_stack :
                  IsSome(Upgrade(classes, threads[t].jvm_stack[f])))

\* C23: when no class on the superclass chain of the class of a call, up to
\* and including java/lang/Object, declares a method with the name and the
\* descriptor of the call, the frame construction of invokestatic returns the
\* error NoSuchMethod and no frame is pushed.
C23_MissingMethodIsNoSuchMethod ==
    LET th == Running
        fr == CurrentFrame(th)
        c == PoolGet(classes, fr, IndexBytes(fr).index, "expected ur mom")
        method_ref == Unwrap(c.constant)
        RECURSIVE Declared(_)
        Declared(name) ==
            \/ FirstMatch(class_files[name].methods, method_ref.name,
                          Unwrap(method_ref.descriptor)) # <<>>
            \/ /\ IsSome(class_files[name].super_class)
               /\ Declared(Unwrap(class_files[name].super_class))
    IN  (/\ ThreadActive
         /\ th.at = "loop"
         /\ ~th.is_throwing
         /\ Fetch(th) = Some(invokestatic)
         /\ IndexBytes(fr).ok
         /\ c.ok
         /\ method_ref.tag = "MethodRef"
         /\ method_ref.class \in DOMAIN class_files
         /\ ~Declared(method_ref.class))
        => LET r == ExecInvokestatic(th, classes, heap, FALSE)
           IN  /\ ~r.ok
               /\ r.err = {"NoSuchMethod"}
               /\ Len(r.th.jvm_stack) = Len(th.jvm_stack)

(***************************************************************************)
(* Descriptor parser properties                                            *)
(***************************************************************************)
\* C24: the descriptor parser returns an error for a field descriptor and for
\* a method descriptor whose first type starts with a character that is none
\* of B C D F I J S Z L [, and for one whose first type is a class name that no
\* ; terminates; none of these texts is accepted.
C24_BadDescriptorIsRejected ==
    LET RECURSIVE Element(_)
        \* the text behind the leading [ of an array type
        Element(text) ==
            IF text # <<>> /\ Head(text) = "[" THEN Element(Tail(text)) ELSE text
        Starts == {"B", "C", "D", "F", "I", "J", "S", "Z", "L", "["}
        Unterminated(text) == Head(text) = "L" /\ \A i \in DOMAIN text : text[i] # ";"
        field == Element(descriptor_text)
        parameter == Element(Tail(descriptor_text))
    IN  parsed_descriptor # None =>
            /\ (field # <<>> /\ (Head(field) \notin Starts \/ Unterminated(field)))
                   => Unwrap(parsed_descriptor).field.outcome = "error"
            /\ (/\ descriptor_text # <<>>
                /\ Head(descriptor_text) = "("
                /\ parameter # <<>>
                /\ (Head(parameter) \notin Starts \cup {")"} \/ Unterminated(parameter)))
                   => Unwrap(parsed_descriptor).method.outcome = "error"

\* C25: aaload, baload and caload with the null reference raise
\* NullPointerException and with an index below 0 or not below the length of
\* the array raise ArrayIndexOutOfBoundsException: the instruction is not a
\* fatal error, it allocates the exception and the thread is throwing it.
C25_ArrayLoadRaisesJavaException ==
    LET th == Running
        fr == CurrentFrame(th)
        n == Len(fr.operand_stack)
        index == fr.operand_stack[n]
        arrayref == fr.operand_stack[n - 1]
        null == arrayref = 0
        outside == /\ arrayref \in 1..(Len(heap) - 1)
                   /\ (index < 0 \/ index >= Len(heap[arrayref + 1].data))
    IN  (/\ ThreadActive
         /\ th.at = "loop"
         /\ ~th.is_throwing
         /\ Fetch(th) \in {Some(aaload), Some(baload), Some(caload)}
         /\ n >= 2
         /\ (null \/ outside))
        => LET r == ExecArrayLoad(th, classes, heap, FALSE)
           IN  /\ r.ok
               /\ Len(r.heap) = Len(heap) + 1
               /\ Last(r.heap).field_descriptor =
                      ClassDescriptor(IF null THEN "java/lang/NullPointerException"
                                      ELSE "java/lang/ArrayIndexOutOfBoundsException")
               /\ r.th.thrown = Some(Len(heap))

\* C26: Counter.<clinit> triggers ensure_class(Other) and Other.<clinit>
\* triggers ensure_class(Counter). The ensure_class(Counter) of main
\* terminates: main gets past the instruction that triggered it with both
\* classes Initialized, and neither <clinit> is entered a second time.
C26_CircularInitTerminates ==
    /\ [](main_name = "Statics" =>
              clinit_entered["Counter"] <= 1 /\ clinit_entered["Other"] <= 1)
    /\ <>(main_name = "Statics" =>
           (/\ Len(threads) = 1
            /\ threads[1].jvm_stack # <<>>
            /\ CurrentFrame(threads[1]).class_name = "Statics"
            /\ CurrentFrame(threads[1]).instruction_counter >= 3
            /\ {"Counter", "Other"} \subseteq DOMAIN classes
            /\ classes["Counter"].initialized
            /\ classes["Other"].initialized
            /\ clinit_entered["Counter"] = 1
            /\ clinit_entered["Other"] = 1))

\* Other.<clinit>, started from Counter.<clinit>, has executed its getstatic of
\* a field of Counter without a second frame for Counter.<clinit>
C26_RecursiveTriggerReturned ==
    /\ Len(threads) = 3
    /\ CurrentFrame(threads[2]).class_name = "Counter"
    /\ CurrentFrame(threads[3]).class_name = "Other"
    /\ CurrentFrame(threads[3]).instruction_counter = 3
    /\ CurrentFrame(threads[3]).operand_stack = <<7>>
    /\ clinit_entered["Counter"] = 1


\* C27: lstore n (or lstore_<n>) with the cells high, low on top of the
\* operand stack, followed by lload n (or lload_<n>), leaves high, low on top
\* of the operand stack, and the local slots n and n+1 hold them.
C27_LongLocalRoundTrip ==
    LET th == Running
        fr == CurrentFrame(th)
        n == Len(fr.operand_stack)
    IN  (/\ ThreadActive
         /\ th.at = "loop"
         /\ ~th.is_throwing
         /\ IsSome(Fetch(th))
         /\ Unwrap(Fetch(th)) \in {lstore} \cup (lstore_0..lstore_3)
         /\ n >= 2)
        => LET stored == ExecLstore(th, classes, heap, FALSE)
               loaded == ExecLload(stored.th, stored.classes, stored.heap, FALSE)
               after == CurrentFrame(loaded.th)
               slot == IF Unwrap(Fetch(th)) = lstore
                       THEN Unwrap(ByteAt(fr, fr.instruction_counter + 1))
                       ELSE Unwrap(Fetch(th)) - lstore_0
           IN  /\ stored.ok
               /\ Unwrap(Fetch(stored.th)) \in {lload} \cup (lload_0..lload_3)
               /\ loaded.ok
               /\ after.operand_stack = fr.operand_stack
               /\ after.local_variables[slot + 1] = fr.operand_stack[n - 1]
               /\ after.local_variables[slot + 2] = fr.operand_stack[n]


\* C28: putstatic to a field of type long or double pops two cells and writes
\* them to the two consecutive cells at the field's offset in the class's
\* static storage; getstatic of the same field then pushes those two cells in
\* the same order, and the heap is left as it was.
C28_WideFieldRoundTrip ==
    LET th == Running
        fr == CurrentFrame(th)
        n == Len(fr.operand_stack)
        c == PoolGet(classes, fr, IndexBytes(fr).index, "expected ur mom 4")
        field_ref == Unwrap(c.constant)
    IN  (/\ ThreadActive
         /\ th.at = "loop"
         /\ ~th.is_throwing
         /\ Fetch(th) = Some(putstatic)
         /\ IndexBytes(fr).ok
         /\ c.ok
         /\ field_ref.tag = "FieldRef"
         /\ field_ref.descriptor \in {<<"J">>, <<"D">>}
         /\ field_ref.class \in DOMAIN classes
         /\ IsInitialized(classes[field_ref.class])
         /\ n >= 2)
        => LET put == ExecPutstatic(th, classes, heap, FALSE)
               o == StaticFieldOffset(classes[field_ref.class].static_fields,
                                      field_ref.class, field_ref.name, 1, 0)
               get == ExecGetstatic(put.th, put.classes, put.heap, FALSE)
           IN  /\ put.ok
               /\ CurrentFrame(put.th).operand_stack = SubSeq(fr.operand_stack, 1, n - 2)
               /\ SubSeq(put.classes[field_ref.class].static_field_values,
                         o.offset + 1, o.offset + 2)
                      = SubSeq(fr.operand_stack, n - 1, n)
               /\ Fetch(put.th) = Some(getstatic)
               /\ get.ok
               /\ CurrentFrame(get.th).operand_stack = fr.operand_stack
               /\ get.heap = heap


\* C29: invokestatic takes the argument cells off the caller's operand stack,
\* two cells for each long or double parameter and one for every other, and
\* the new frame's locals start with those cells in declaration order.
C29_InvokePassesArgumentCells ==
    LET th == Running
        fr == CurrentFrame(th)
        n == Len(fr.operand_stack)
        c == PoolGet(classes, fr, IndexBytes(fr).index, "expected ur mom")
        method_ref == Unwrap(c.constant)
        parameter_descriptors == Unwrap(method_ref.descriptor).parameter_descriptors
        cells == Len(Flatten([i \in 1..Len(parameter_descriptors) |->
                                 IF parameter_descriptors[i] \in {"J", "D"}
                                 THEN <<0, 0>> ELSE <<0>>]))
    IN  (/\ ThreadActive
         /\ th.at = "loop"
         /\ ~th.is_throwing
         /\ Fetch(th) = Some(invokestatic)
         /\ IndexBytes(fr).ok
         /\ c.ok
         /\ method_ref.tag = "MethodRef"
         /\ method_ref.class \in DOMAIN classes
         /\ IsInitialized(classes[method_ref.class])
         /\ n >= cells)
        => LET r == ExecInvokestatic(th, classes, heap, FALSE)
               depth == Len(r.th.jvm_stack)
           IN  r.ok =>
                   /\ depth = Len(th.jvm_stack) + 1
                   /\ r.th.jvm_stack[depth - 1].operand_stack =
                          SubSeq(fr.operand_stack, 1, n - cells)
                   /\ SubSeq(r.th.jvm_stack[depth].local_variables, 1, cells) =
                          SubSeq(fr.operand_stack, n - cells + 1, n)


\* C30: class lifecycle states only advance.  A class record marked
\* initialized is linked, its resolved constant pool and its mirror handle are
\* present, and no step resets the initialized flag or replaces a resolved
\* pool or a mirror handle.
C30_LifecycleOnlyAdvances ==
    /\ [](\A name \in DOMAIN classes :
              (classes[name].kind = "instance" /\ classes[name].initialized)
                  => /\ IsLinked(classes[name])
                     /\ IsSome(classes[name].java_clone))
    /\ [][\A name \in DOMAIN classes :
              /\ name \in DOMAIN classes'
              /\ classes[name].initialized => classes'[name].initialized
              /\ IsSome(classes[name].constant_pool)
                     => classes'[name].constant_pool = classes[name].constant_pool
              /\ IsSome(classes[name].java_clone)
                     => classes'[name].java_clone = classes[name].java_clone]_vars


\* C31: the iteration of a native frame that does not fail pops exactly that
\* frame; the frames below the caller are untouched, and the caller keeps its
\* locals and its instruction counter and gains, on top of its operand stack,
\* the cells of the native's return value: none for V, two for J and D, one
\* for every other return type.
C31_NativeFrameEffect ==
    [][(/\ ThreadActive
        /\ Running.at = "loop"
        /\ ~Running.is_throwing
        /\ Running.jvm_stack # <<>>
        /\ ~IsSome(CurrentFrame(Running).code_bytes)
        /\ vm' = vm)
       => LET old == Running.jvm_stack
              depth == Len(old)
              after == threads'[Len(threads)].jvm_stack
              return_descriptor == old[depth].method.descriptor.return_descriptor
              cells == CASE return_descriptor = "V" -> 0
                         [] return_descriptor \in {"J", "D"} -> 2
                         [] OTHER -> 1
          IN  /\ Len(threads') = Len(threads)
              /\ Len(after) = depth - 1
              /\ \A i \in 1..(depth - 2) : after[i] = old[i]
              /\ depth >= 2 =>
                     /\ after[depth - 1] =
                            [old[depth - 1] EXCEPT
                                !.operand_stack = after[depth - 1].operand_stack]
                     /\ Len(after[depth - 1].operand_stack) =
                            Len(old[depth - 1].operand_stack) + cells
                     /\ SubSeq(after[depth - 1].operand_stack, 1,
                               Len(old[depth - 1].operand_stack)) =
                            old[depth - 1].operand_stack]_vars

\* System.nanoTime has returned: its frame is gone and the two cells of the
\* timestamp are on the operand stack of main
C31_NanoTimeReturned ==
    /\ main_name = "Natives"
    /\ vm.at = "run"
    /\ Len(threads) = 1
    /\ CurrentFrame(threads[1]).class_name = "Natives"
    /\ CurrentFrame(threads[1]).instruction_counter = 8
    /\ CurrentFrame(threads[1]).operand_stack \in Timestamps


\* C32: iushr and lushr push the logical shift of the value that was pushed,
\* zeros entering at the top also when its sign bit is set, and ishr pushes
\* the arithmetic shift, the sign bit entering at the top.
C32_UnsignedShiftIsLogical ==
    LET th == Running
        fr == CurrentFrame(th)
        n == Len(fr.operand_stack)
        long == Fetch(th) = Some(lushr)
        cells == IF long THEN 3 ELSE 2
    IN  (/\ ThreadActive
         /\ th.at = "loop"
         /\ ~th.is_throwing
         /\ Fetch(th) \in {Some(ishr), Some(iushr), Some(lushr)}
         /\ n >= cells)
        => LET s == fr.operand_stack[n]
               value == IF long
                        THEN Bits(fr.operand_stack[n - 1], 32)
                                 \o Bits(fr.operand_stack[n - 2], 32)
                        ELSE Bits(fr.operand_stack[n - 1], 32)
               shifted == IF long THEN ShiftRight(value, s % 64, 0)
                          ELSE IF Fetch(th) = Some(iushr)
                          THEN ShiftRight(value, s % 32, 0)
                          ELSE ShiftRight(value, s % 32, value[32])
               expected == IF long
                           THEN <<Word(SubSeq(shifted, 33, 64)),
                                  Word(SubSeq(shifted, 1, 32))>>
                           ELSE <<Word(shifted)>>
           IN  \A r \in ExecShift(th, classes, heap, FALSE) :
                   r.ok => CurrentFrame(r.th).operand_stack =
                               SubSeq(fr.operand_stack, 1, n - cells) \o expected

\* C33: bastore keeps the low 8 bits of the value and baload pushes the element
\* sign-extended from 8 bits: baload after bastore of v at the same index pushes
\* (byte) v, and baload of a byte b >= 128 of a String's value array pushes
\* b - 256.
C33_ByteElementsAreSignedBytes ==
    LET th == Running
        fr == CurrentFrame(th)
        AsByte(v) == (((v % 256) + 128) % 256) - 128
    IN  (/\ ThreadActive
         /\ th.at = "loop"
         /\ ~th.is_throwing
         /\ Fetch(th) = Some(baload)
         /\ fr.class_name = "Alu"
         /\ alu.op \in {bastore, getfield})
        => LET r == ExecArrayLoad(th, classes, heap, FALSE)
               element == IF alu.op = bastore THEN alu.a.value
                          ELSE StringBytes(FromUtf8(alu.a.bytes).text)[1]
           IN  r.ok => Last(CurrentFrame(r.th).operand_stack) = AsByte(element)

\* C34: the offset getfield and putfield use is the sum of the widths of the
\* layout entries before the matched entry, for a name that a class declares
\* again below a superclass the entry matched for the class's own field is
\* the most-derived declaration, and the two same-named fields are read and
\* written at different offsets.
C34_ShadowingFieldHasOwnOffset ==
    LET th == Running
        fr == CurrentFrame(th)
        n == Len(fr.operand_stack)
        objectref == IF Fetch(th) = Some(getfield) THEN fr.operand_stack[n]
                     ELSE fr.operand_stack[n - 1]
        constant == Unwrap(PoolGet(classes, fr, IndexBytes(fr).index, "").constant)
        fields == classes["Shadow"].fields
        Before[k \in 0..Len(fields)] ==
            IF k = 0 THEN 0 ELSE Before[k - 1] + fields[k].field_width
        declared == {k \in 1..Len(fields) : fields[k].field_name = constant.name}
        most_derived == CHOOSE k \in declared : \A j \in declared : j <= k
        o == ObjectFieldOffset(classes, heap, objectref, constant)
    IN  (/\ ThreadActive
         /\ th.at = "loop"
         /\ ~th.is_throwing
         /\ Fetch(th) \in {Some(getfield), Some(putfield)}
         /\ fr.class_name = "Shadow")
        => /\ o.ok
           /\ \E k \in declared : o.offset = Before[k - 1]
           /\ constant.class = "Shadow" => o.offset = Before[most_derived - 1]
           /\ ObjectFieldOffset(classes, heap, objectref,
                                FieldRef("Outer", "x", "I")).offset
                  # ObjectFieldOffset(classes, heap, objectref,
                                      FieldRef("Shadow", "x", "I")).offset

\* C35: every frame of a method that is not native has at least as many local
\* variable slots as the max_locals of the method's Code attribute, and was
\* built with an empty operand stack: a frame at instruction 0 holds no
\* operand.
C35_LocalsCoverMaxLocals ==
    \A t \in 1..Len(threads) : \A d \in 1..Len(threads[t].jvm_stack) :
        LET fr == threads[t].jvm_stack[d]
            found == FirstMatch(class_files[classes[fr.class_name].parsed_class].methods,
                                fr.method.name, fr.method.descriptor)
        IN  IsSome(fr.code_bytes)
            => /\ Len(fr.local_variables) >= Unwrap(found[1].code).max_locals
               /\ fr.instruction_counter = 0 /\ ~threads[t].is_throwing
                      => fr.operand_stack = <<>>

\* C36: Class.initClassName called on the mirror of a linked class completes
\* without error and hands its invoker a String with the binary name of exactly
\* that class, also when the method area holds records that are loaded and not
\* linked.
C36_InitClassNameNamesTheClass ==
    LET th == Running
        fr == CurrentFrame(th)
        depth == Len(th.jvm_stack)
        this_ref == fr.local_variables[1]
        target == CHOOSE n \in DOMAIN classes : classes[n].java_clone = Some(this_ref)
    IN  (/\ ThreadActive
         /\ th.at = "loop"
         /\ ~th.is_throwing
         /\ ~IsSome(fr.code_bytes)
         /\ fr.class_name = "java/lang/Class"
         /\ fr.method.name = "initClassName"
         /\ \E n \in DOMAIN classes :
                IsLinked(classes[n]) /\ classes[n].java_clone = Some(this_ref))
        => \A r \in ExecNative(th, classes, heap, FALSE) :
               /\ r.ok
               /\ Len(r.th.jvm_stack) = depth - 1
               /\ LET string_ref == Last(CurrentFrame(r.th).operand_stack)
                      value == r.heap[string_ref + 1].data[1]
                  IN  /\ r.heap[string_ref + 1].field_descriptor
                             = ClassDescriptor("java/lang/String")
                      /\ r.heap[value + 1].data = StringBytes(StringOf(target))

\* C37: when the interpreter loop of the main thread has ended normally the
\* thread's frame stack is empty, and so the frame of main that VM::run pushes
\* after System.initPhase1 has run is the only frame of the main thread.
C37_LoopLeavesNoFrame ==
    /\ (/\ Live
        /\ Len(threads) = 1
        /\ threads[1].at = "idle"
        /\ vm.at = "run")
       => threads[1].jvm_stack = <<>>
    /\ (/\ DriverAt("run")
        /\ vm.pc = Len(Driver(main_name)))
       => /\ Len(threads[1].jvm_stack) = 1
          /\ threads[1].jvm_stack[1].method.name = "main"

\* C38: whenever a class is initialized its superclass is initialized too, and
\* the <clinit> of a class has not been entered before the <clinit> of its
\* superclass, when the superclass has one.
C38_SuperclassInitializedFirst ==
    \A n \in DOMAIN classes :
        LET super == class_files[classes[n].parsed_class].super_class
            HasClinit(c) == \E i \in 1..Len(class_files[c].methods) :
                                class_files[c].methods[i].name = "<clinit>"
        IN  (/\ classes[n].kind = "instance"
             /\ classes[n].initialized
             /\ IsSome(super))
            => /\ Unwrap(super) \in DOMAIN classes
               /\ classes[Unwrap(super)].initialized
               /\ (clinit_entered[n] > 0 /\ HasClinit(Unwrap(super)))
                      => clinit_entered[Unwrap(super)] > 0

\* C39: when a method called by an invoke instruction throws an exception it
\* does not catch, an exception-table entry of the caller whose range
\* [start_pc, end_pc) holds the pc of the invoke, the last instruction of the
\* range included, and whose catch_type names the class of the exception
\* covers the throw: its handler receives the exception.
C39_InvokeInRangeIsCovered ==
    LET th == Running
        fr == CurrentFrame(th)
        pool == Unwrap(Upgrade(classes, fr))
        table == Unwrap(fr.exception_table)
        invoke_pc == fr.instruction_counter - 3
        objectref == Last(fr.operand_stack)
        covering == {e \in 1..Len(table) :
                        /\ table[e].start_pc <= invoke_pc
                        /\ invoke_pc < table[e].end_pc
                        /\ table[e].catch_type \in 1..Len(pool)
                        /\ pool[table[e].catch_type].class
                               = heap[objectref + 1].field_descriptor.name}
    IN  (/\ ThreadActive
         /\ th.at = "loop"
         /\ th.is_throwing
         /\ IsSome(fr.code_bytes)
         /\ fr.operand_stack # <<>>
         /\ invoke_pc >= 0
         /\ ByteAt(fr, invoke_pc) \in {Some(invokestatic), Some(invokevirtual)}
         /\ covering # {})
        => LET r == Prologue(th, classes, heap)
               first == CHOOSE e \in covering : \A j \in covering : e <= j
           IN  /\ r.ok
               /\ r.th.hx = "found"
               /\ CurrentFrame(r.th).instruction_counter = table[first].handler_pc
               /\ CurrentFrame(r.th).operand_stack = fr.operand_stack

\* C40: every linked class record and every array record has a mirror handle
\* that refers to a heap object with the type descriptor Ljava/lang/Class;, and
\* no two records share a mirror handle.
C40_MirrorsAreDistinctClassObjects ==
    LET Mirrored == {n \in DOMAIN classes :
                        classes[n].kind = "array" \/ IsLinked(classes[n])}
    IN  /\ \A n \in Mirrored :
               /\ IsSome(classes[n].java_clone)
               /\ Unwrap(classes[n].java_clone) \in 0..(Len(heap) - 1)
               /\ heap[Unwrap(classes[n].java_clone) + 1].field_descriptor
                      = ClassDescriptor("java/lang/Class")
        /\ \A n \in Mirrored : \A m \in Mirrored :
               n # m => classes[n].java_clone # classes[m].java_clone

\* the array records and the linked records of a class and of its superclass
\* stand in the method area while main of Shadow runs
C40_MirrorsOfShadowAllocated ==
    /\ main_name = "Shadow"
    /\ vm.at = "run"
    /\ {"[B", "[Ljava/lang/Object;", "Outer", "Shadow"} \subseteq DOMAIN classes
    /\ IsLinked(classes["Outer"])
    /\ IsLinked(classes["Shadow"])
    /\ classes["Shadow"].java_clone # classes["Outer"].java_clone

=============================================================================
